---- MODULE Spec2Model ----
(***************************************************************************)
(* Model of the SQL securing engine of the Mali Daftari backend,           *)
(* src/backend/utils/sql_validator.py.                                     *)
(*                                                                         *)
(* SQL text is a TLA+ string; positions are 1-based (a Python offset k is  *)
(* position k + 1) and position 0 stands for "not found" (Python's -1 or   *)
(* a failed re.search).                                                    *)
(*                                                                         *)
(* The source file holds unresolved merge conflicts: each conflicted hunk  *)
(* has a HEAD side and a THEIRS side (c3b5854).  Which side a build keeps  *)
(* is not decided by the source, so the model keeps one variable per hunk  *)
(* and lets Init choose it:                                                *)
(*   normSide    lines 14-35   normalisation of the raw text               *)
(*   kwSide      lines 46-53   the list of dangerous keywords              *)
(*   filterSide  lines 103-197 the body of add_business_filter             *)
(* The functions that follow add_business_filter in the file (lines 200 to *)
(* 282: extract_table_names, validate_allowed_tables, ALLOWED_TABLES and   *)
(* validate_query_complete) are needed by the only caller, app.py:109, and *)
(* are part of every resolution.                                           *)
(***************************************************************************)
EXTENDS Integers, Sequences, FiniteSets, TLC

(***************************************************************************)
(* Python str and re primitives.                                           *)
(***************************************************************************)

LowerAlpha == "abcdefghijklmnopqrstuvwxyz"

UpperAlpha == "ABCDEFGHIJKLMNOPQRSTUVWXYZ"

Digits == "0123456789"

CharsOf(s) == {SubSeq(s, i, i) : i \in 1..Len(s)}

LowerSet == CharsOf(LowerAlpha)

UpperSet == CharsOf(UpperAlpha)

DigitSet == CharsOf(Digits)

\* \w of Python's re on ASCII text.
WordChars == LowerSet \cup UpperSet \cup DigitSet \cup {"_"}

\* \s of Python's re, and the characters str.split() and str.strip() drop.
SpaceChars == {" ", "\t", "\n", "\r", "\f"}

Ch(s, i) == SubSeq(s, i, i)

UpperTable == [c \in LowerSet |->
                 LET k == CHOOSE i \in 1..Len(LowerAlpha) : Ch(LowerAlpha, i) = c
                 IN  Ch(UpperAlpha, k)]

LowerTable == [c \in UpperSet |->
                 LET k == CHOOSE i \in 1..Len(UpperAlpha) : Ch(UpperAlpha, i) = c
                 IN  Ch(LowerAlpha, k)]

UpperCh(c) == IF c \in LowerSet THEN UpperTable[c] ELSE c

LowerCh(c) == IF c \in UpperSet THEN LowerTable[c] ELSE c

\* f[lo] \o f[lo + 1] \o ... \o f[hi] for a function f from positions to
\* strings, built by halving the range.
RECURSIVE CatRange(_, _, _)
CatRange(f, lo, hi) ==
    IF lo > hi THEN ""
    ELSE IF lo = hi THEN f[lo]
    ELSE LET mid == (lo + hi) \div 2
         IN  CatRange(f, lo, mid) \o CatRange(f, mid + 1, hi)

\* The least member of a set of positions, 0 when it is empty.
FirstOf(S) == IF S = {} THEN 0 ELSE CHOOSE i \in S : \A j \in S : i <= j

\* str.upper()
Upper(s) ==
    CatRange([i \in 1..Len(s) |-> UpperCh(Ch(s, i))], 1, Len(s))

\* str.lower()
Lower(s) ==
    CatRange([i \in 1..Len(s) |-> LowerCh(Ch(s, i))], 1, Len(s))

\* s[i-1:].startswith(p)
MatchAt(s, i, p) ==
    /\ i >= 1
    /\ i + Len(p) - 1 <= Len(s)
    /\ SubSeq(s, i, i + Len(p) - 1) = p

\* str.startswith
StartsWith(s, p) == MatchAt(s, 1, p)

\* The first occurrence of p in s at or after position i, 0 when none.
FindFrom(s, p, i) ==
    FirstOf({k \in i..(Len(s) - Len(p) + 1) : SubSeq(s, k, k + Len(p) - 1) = p})

\* str.find: the position of the first occurrence, 0 when there is none.
Find(s, p) == FindFrom(s, p, 1)

\* p in s
Contains(s, p) == Find(s, p) # 0

\* s[:i-1] and s[i-1:] for a position i
Before(s, i) == SubSeq(s, 1, i - 1)

From(s, i) == SubSeq(s, i, Len(s))

\* str.count of a single character
Count(s, c) == Cardinality({i \in 1..Len(s) : Ch(s, i) = c})

RECURSIVE ReplaceFrom(_, _, _, _)
ReplaceFrom(s, old, new, i) ==
    LET k == FindFrom(s, old, i)
    IN  IF k = 0 THEN From(s, i)
        ELSE SubSeq(s, i, k - 1) \o new \o ReplaceFrom(s, old, new, k + Len(old))

\* str.replace(old, new): every non-overlapping occurrence, left to right.
Replace(s, old, new) == ReplaceFrom(s, old, new, 1)

RECURSIVE LStripSet(_, _)
LStripSet(s, cs) ==
    IF Len(s) > 0 /\ Ch(s, 1) \in cs THEN LStripSet(From(s, 2), cs) ELSE s

RECURSIVE RStripSet(_, _)
RStripSet(s, cs) ==
    IF Len(s) > 0 /\ Ch(s, Len(s)) \in cs
    THEN RStripSet(SubSeq(s, 1, Len(s) - 1), cs) ELSE s

\* str.strip()
Strip(s) == RStripSet(LStripSet(s, SpaceChars), SpaceChars)

\* str.rstrip(';')
RStripSemi(s) == RStripSet(s, {";"})

\* Every whitespace run of s becomes one space.
Collapse(s) ==
    CatRange([i \in 1..Len(s) |->
                 IF Ch(s, i) \in SpaceChars
                 THEN IF i > 1 /\ Ch(s, i - 1) \in SpaceChars THEN "" ELSE " "
                 ELSE Ch(s, i)],
             1, Len(s))

\* ' '.join(s.split()): whitespace runs become one space, none at the ends.
JoinSplit(s) == Collapse(Strip(s))

\* The end (exclusive) of the longest run of characters of cs starting at i.
RunEnd(s, i, cs) ==
    IF i < 1 \/ i > Len(s) THEN i
    ELSE FirstOf({k \in i..(Len(s) + 1) : k = Len(s) + 1 \/ Ch(s, k) \notin cs})

IsWordAt(s, i) == i >= 1 /\ i <= Len(s) /\ Ch(s, i) \in WordChars

\* \b at the gap before position i.
BoundaryAt(s, i) == IsWordAt(s, i - 1) # IsWordAt(s, i)

\* \bkw\b matches at position i of s (re.IGNORECASE: su is s uppercased, kw
\* is written in upper case).
WordMatchAt(su, i, kw) ==
    /\ MatchAt(su, i, kw)
    /\ BoundaryAt(su, i)
    /\ BoundaryAt(su, i + Len(kw))

\* re.search(r'\bkw\b', s, re.IGNORECASE).start(), 0 when there is no match.
WordSearch(s, kw) ==
    LET su == Upper(s)
    IN  FirstOf({i \in 1..Len(su) : WordMatchAt(su, i, kw)})

(***************************************************************************)
(* sql_validator.py: the parts of validate_and_secure_sql.                 *)
(***************************************************************************)

Sides == {"HEAD", "THEIRS"}

\* A markdown code fence is three backticks.  A TLA+ string cannot hold a
\* backtick, so the model writes the backtick as "~", a character that
\* occurs in no statement of the model.
Fence == "~~~"

FenceSql == Fence \o "sql"

\* Lines 14-35: HEAD collapses whitespace; THEIRS strips the ends and
\* removes the fence markers.
Normalize(side, raw) ==
    IF side = "HEAD"
    THEN JoinSplit(raw)
    ELSE Strip(Replace(Replace(Strip(raw), FenceSql, ""), Fence, ""))

\* Line 39 with a test for SELECT anywhere: 'SELECT' in sql_upper
IsSelectAnywhere(sql_upper) == Contains(sql_upper, "SELECT")

\* Line 39
IsSelect(sql_upper) == StartsWith(sql_upper, "SELECT")

\* Lines 44-54, HEAD side
DangerousHead ==
    {"DROP", "DELETE", "UPDATE", "INSERT", "ALTER",
     "CREATE", "TRUNCATE", "EXEC", "EXECUTE",
     "PRAGMA", "GRANT", "REVOKE", ";--"}

\* Lines 44-54, THEIRS side
DangerousTheirs ==
    {"DROP", "DELETE", "UPDATE", "INSERT", "ALTER",
     "CREATE", "TRUNCATE", "EXEC", "EXECUTE", "--", ";--",
     "PRAGMA", "GRANT", "REVOKE", "INTO", "INFORMATION_SCHEMA",
     "PG_", "COPY", "VACUUM"}

Dangerous(side) == IF side = "HEAD" THEN DangerousHead ELSE DangerousTheirs

\* Lines 56-59: some dangerous keyword is a substring of the uppercased text.
HasDangerous(side, sql_upper) ==
    \E keyword \in Dangerous(side) : Contains(sql_upper, keyword)

\* Line 62 without its second test: only the count of semicolons is checked.
HasMultipleStatementsCountOnly(sql) == Count(sql, ";") > 1

\* Line 62 with a test for any semicolon at all: ';' in sql
HasMultipleStatementsAnySemicolon(sql) == Contains(sql, ";")

\* Line 62: sql.count(';') > 1 or ';' in sql[:-1]
HasMultipleStatements(sql) ==
    \/ Count(sql, ";") > 1
    \/ Contains(SubSeq(sql, 1, Len(sql) - 1), ";")

\* Lines 100 and 144: business_id.replace("'", "''")
EscapeId(business_id) == Replace(business_id, "'", "''")

(***************************************************************************)
(* add_business_filter, HEAD side (lines 104-141).                         *)
(***************************************************************************)

\* One attempt of FROM\s+(\w+)(?:\s+(?:AS\s+)?(\w+))? at position i of sql
\* (su is sql uppercased, for re.IGNORECASE).  The groups are positions:
\* group 1 is sql[g1s .. g1e-1]; group 2 is sql[g2s .. g2e-1], or nothing
\* when g2s = 0.  The optional parts are greedy: the AS branch is taken when
\* all of it matches, then the bare alias, then no alias at all.
FromMatchAt(sql, su, i) ==
    LET ws1 == RunEnd(sql, i + 4, SpaceChars)
        g1e == RunEnd(sql, ws1, WordChars)
        ws2 == RunEnd(sql, g1e, SpaceChars)
        asw == RunEnd(sql, ws2 + 2, SpaceChars)
        ase == RunEnd(sql, asw, WordChars)
        bare == RunEnd(sql, ws2, WordChars)
        ok  == MatchAt(su, i, "FROM") /\ ws1 > i + 4 /\ g1e > ws1
    IN  IF ~ok THEN [ok |-> FALSE, g1s |-> 0, g1e |-> 0, g2s |-> 0, g2e |-> 0]
        ELSE IF ws2 > g1e /\ MatchAt(su, ws2, "AS") /\ asw > ws2 + 2 /\ ase > asw
        THEN [ok |-> TRUE, g1s |-> ws1, g1e |-> g1e, g2s |-> asw, g2e |-> ase]
        ELSE IF ws2 > g1e /\ bare > ws2
        THEN [ok |-> TRUE, g1s |-> ws1, g1e |-> g1e, g2s |-> ws2, g2e |-> bare]
        ELSE [ok |-> TRUE, g1s |-> ws1, g1e |-> g1e, g2s |-> 0, g2e |-> 0]

\* Line 109: re.search(r'FROM\s+(\w+)(?:\s+(?:AS\s+)?(\w+))?', sql, re.I),
\* the leftmost match; ok = FALSE when there is none.
FromSearch(sql) ==
    LET su == Upper(sql)
    IN  FromMatchAt(sql, su, FirstOf({i \in 1..Len(sql) : FromMatchAt(sql, su, i).ok}))

\* Line 114: the alias if group 2 matched, otherwise the table name.
TableAlias(sql, m) ==
    IF m.g2s # 0 THEN SubSeq(sql, m.g2s, m.g2e - 1)
    ELSE SubSeq(sql, m.g1s, m.g1e - 1)

\* Line 115
QualifiedFilter(table_alias, safe_business_id) ==
    table_alias \o ".business_id = '" \o safe_business_id \o "'"

\* re.sub reads its replacement as a template: a backslash followed by a
\* digit is a group reference, and the pattern \bWHERE\b has no group, so
\* the call raises re.error; a doubled backslash stands for one.  Other
\* characters stand for themselves.  (The escapes that yield control
\* characters are left out: no text of the model holds one.)
\* The template is read left to right, a backslash taking the character
\* after it: the backslash at position i starts an escape when an even
\* number of backslashes stands directly before it.
EscapeStartAt(repl, i) ==
    LET prev == {k \in 1..(i - 1) : Ch(repl, k) # "\\"}
        last == IF prev = {} THEN 0 ELSE CHOOSE k \in prev : \A j \in prev : j <= k
    IN  Ch(repl, i) = "\\" /\ (i - 1 - last) % 2 = 0

TemplateRaises(repl) ==
    \E i \in 1..(Len(repl) - 1) :
        EscapeStartAt(repl, i) /\ Ch(repl, i + 1) \in DigitSet

ExpandTemplate(repl) ==
    CatRange([i \in 1..Len(repl) |->
                 IF Ch(repl, i) = "\\" /\ ~EscapeStartAt(repl, i) THEN ""
                 ELSE Ch(repl, i)],
             1, Len(repl))

\* Lines 119-125: re.sub(r'\bWHERE\b', f'WHERE {business_filter} AND', sql,
\* count=1, flags=re.IGNORECASE).  A result of raised = TRUE is the re.error
\* leaving the function.
SubFirstWhere(sql, business_filter) ==
    LET repl == "WHERE " \o business_filter \o " AND"
        k    == WordSearch(sql, "WHERE")
    IN  IF k = 0 THEN [raised |-> FALSE, sql |-> sql]
        ELSE IF TemplateRaises(repl) THEN [raised |-> TRUE, sql |-> sql]
        ELSE [raised |-> FALSE,
              sql |-> Before(sql, k) \o ExpandTemplate(repl) \o From(sql, k + 5)]

\* Line 130
ClauseKeywords == <<"GROUP BY", "HAVING", "ORDER BY", "LIMIT", "OFFSET">>

\* Lines 129-134: the smallest match.start() over the clause keywords, 0
\* when none matches.
RECURSIVE InsertionPointFrom(_, _, _)
InsertionPointFrom(sql, n, insertion_point) ==
    IF n > Len(ClauseKeywords) THEN insertion_point
    ELSE LET match == WordSearch(sql, ClauseKeywords[n])
         IN  IF match # 0 /\ (insertion_point = 0 \/ match < insertion_point)
             THEN InsertionPointFrom(sql, n + 1, match)
             ELSE InsertionPointFrom(sql, n + 1, insertion_point)

InsertionPoint(sql) == InsertionPointFrom(sql, 1, 0)

\* Lines 136-141
InsertWhereHead(sql, business_filter) ==
    LET insertion_point == InsertionPoint(sql)
    IN  IF insertion_point # 0
        THEN Before(sql, insertion_point) \o "WHERE " \o business_filter \o " "
             \o From(sql, insertion_point)
        ELSE RStripSemi(sql) \o " WHERE " \o business_filter

\* Lines 100-141
AddBusinessFilterHead(sql, business_id) ==
    LET safe_business_id == EscapeId(business_id)
        sql_upper == Upper(sql)
        from_match == FromSearch(sql)
        business_filter == QualifiedFilter(TableAlias(sql, from_match), safe_business_id)
    IN  IF Contains(sql_upper, "BUSINESS_ID") THEN [raised |-> FALSE, sql |-> sql]
        ELSE IF ~from_match.ok THEN [raised |-> FALSE, sql |-> sql]
        ELSE IF Contains(sql_upper, " WHERE ") THEN SubFirstWhere(sql, business_filter)
        ELSE [raised |-> FALSE, sql |-> InsertWhereHead(sql, business_filter)]

(***************************************************************************)
(* add_business_filter, THEIRS side (lines 100-101, 143-197).              *)
(***************************************************************************)

\* Line 146
BareFilter(safe_business_id) == "business_id = '" \o safe_business_id \o "'"

\* sql[:idx] + f" WHERE {business_filter} " + sql[idx:]
InsertWhereBefore(sql, idx, business_filter) ==
    Before(sql, idx) \o " WHERE " \o business_filter \o " " \o From(sql, idx)

\* Lines 150-197
AddBusinessFilterTheirs(sql, business_id) ==
    LET safe_business_id == EscapeId(business_id)
        sql_upper == Upper(sql)
        business_filter == BareFilter(safe_business_id)
        where_idx == Find(sql_upper, " WHERE ") + 7
    IN  IF Contains(sql_upper, " WHERE ")
        THEN Before(sql, where_idx) \o business_filter \o " AND " \o From(sql, where_idx)
        ELSE IF Contains(sql_upper, " GROUP BY ")
        THEN InsertWhereBefore(sql, Find(sql_upper, " GROUP BY "), business_filter)
        ELSE IF Contains(sql_upper, " HAVING ")
        THEN InsertWhereBefore(sql, Find(sql_upper, " HAVING "), business_filter)
        ELSE IF Contains(sql_upper, " ORDER BY ")
        THEN InsertWhereBefore(sql, Find(sql_upper, " ORDER BY "), business_filter)
        ELSE IF Contains(sql_upper, " LIMIT ")
        THEN InsertWhereBefore(sql, Find(sql_upper, " LIMIT "), business_filter)
        ELSE RStripSemi(sql) \o " WHERE " \o business_filter

\* add_business_filter under a resolution of the conflict at lines 103-283.
AddBusinessFilter(side, sql, business_id) ==
    IF side = "HEAD" THEN AddBusinessFilterHead(sql, business_id)
    ELSE [raised |-> FALSE, sql |-> AddBusinessFilterTheirs(sql, business_id)]

\* Line 70: the check uses business_id as given, not the escaped one.
FilterPresent(sql, business_id) ==
    Contains(sql, "business_id = '" \o business_id \o "'")

\* Line 76: the literal 1000 of ' LIMIT 1000'
DefaultLimit == 1000

\* The decimal digits of a natural number, as an f-string writes it.
RECURSIVE NatToStr(_)
NatToStr(n) ==
    IF n < 10 THEN Ch(Digits, n + 1)
    ELSE NatToStr(n \div 10) \o Ch(Digits, (n % 10) + 1)

\* Lines 75-76: sql_upper is the uppercased text of line 36, before injection.
EnforceLimit(sql, sql_upper) ==
    IF ~Contains(sql_upper, "LIMIT")
    THEN RStripSemi(sql) \o " LIMIT " \o NatToStr(DefaultLimit)
    ELSE sql

(***************************************************************************)
(* extract_table_names, validate_allowed_tables (lines 200-254).           *)
(***************************************************************************)

\* kw\s+(\w+) at position i of su: the end of the match, 0 when it fails.
KwTableEnd(su, i, kw) ==
    LET ws == RunEnd(su, i + Len(kw), SpaceChars)
        we == RunEnd(su, ws, WordChars)
    IN  IF MatchAt(su, i, kw) /\ ws > i + Len(kw) /\ we > ws THEN we ELSE 0

\* group(1) of that match
KwTableName(su, i, kw) ==
    LET ws == RunEnd(su, i + Len(kw), SpaceChars)
    IN  SubSeq(su, ws, KwTableEnd(su, i, kw) - 1)

\* The first match of kw\s+(\w+) at or after position i, 0 when none.
KwSearchFrom(su, kw, i) ==
    FirstOf({k \in i..Len(su) : KwTableEnd(su, k, kw) # 0})

\* Lines 219-221: re.finditer(r'JOIN\s+(\w+)', sql_upper), the matches left
\* to right, none overlapping.
RECURSIVE JoinTablesFrom(_, _)
JoinTablesFrom(su, i) ==
    LET k == KwSearchFrom(su, "JOIN", i)
    IN  IF k = 0 THEN << >>
        ELSE <<Lower(KwTableName(su, k, "JOIN"))>>
             \o JoinTablesFrom(su, KwTableEnd(su, k, "JOIN"))

\* Lines 210-223: the table of the first FROM only, then of every JOIN.
ExtractTableNames(sql) ==
    LET sql_upper == Upper(sql)
        f == KwSearchFrom(sql_upper, "FROM", 1)
    IN  (IF f = 0 THEN << >> ELSE <<Lower(KwTableName(sql_upper, f, "FROM"))>>)
        \o JoinTablesFrom(sql_upper, 1)

\* Lines 248-254
ALLOWED_TABLES == {"inventories", "products", "sales", "expenses", "businesses"}

\* Lines 237-244
ValidateAllowedTables(sql, allowed_tables) ==
    LET query_tables == ExtractTableNames(sql)
    IN  \A n \in 1..Len(query_tables) : query_tables[n] \in allowed_tables

(***************************************************************************)
(* The requests the model submits.                                         *)
(***************************************************************************)

\* How many calls of validate_query_complete one behaviour makes: the first
\* on a raw statement, each later one on the same statement again or on the
\* statement the call before it returned.
MaxCalls == 2

\* Tenant ids: two plain ones, and one each holding a single quote, a
\* backslash and a semicolon.
TenantIds == {"t1", "t2", "o'b", "a\\1", "a;b"}

\* Raw statements as a language model may produce them.
RawStatements ==
    {"SELECT * FROM sales",
     "SELECT * FROM sales;",
     "SELECT * FROM sales WHERE a = 1",
     "SELECT * FROM sales WHERE a = 1 OR b = 2",
     "SELECT * FROM sales WHERE business_id = 't2'",
     "SELECT * FROM sales WHERE business_id = 't2' OR business_id = 't1'",
     "SELECT name FROM products GROUP BY name ORDER BY name",
     "SELECT name FROM products p ORDER BY name LIMIT 5;",
     "SELECT name FROM products\nGROUP BY name",
     "SELECT * FROM sales s OFFSET 5",
     "SELECT * FROM sales s LIMIT 5000",
     "SELECT credit_limit FROM sales s",
     "SELECT p.name FROM products p JOIN sales s ON s.product_id = p.id",
     "SELECT p.name FROM products AS p JOIN sales s ON s.product_id = p.id WHERE s.qty > 1",
     "SELECT * FROM products p WHERE id IN (SELECT id FROM secrets)",
     "SELECT * FROM sales s JOIN secrets x ON x.id = s.id",
     "SELECT * FROM secrets",
     "SELECT 1; DROP TABLE products",
     "SELECT * FROM sales; SELECT * FROM sales",
     "UPDATE products SET price = 0",
     "SELECT 1",
     "SELECT * FROM sales WHERE old_business_id = 't1'",
     "SELECT * INTO backup FROM sales",
     "SELECT * FROM sales -- all",
     "SELECT created_at FROM sales",
     " select * from sales ",
     FenceSql \o "\nSELECT * FROM sales\n" \o Fence}

(***************************************************************************)
(* State.                                                                  *)
(***************************************************************************)

VARIABLES
    normSide,      \* the side kept of the conflict at lines 14-35
    kwSide,        \* the side kept of the conflict at lines 46-53
    filterSide,    \* the side kept of the conflict at lines 103-283
    raw_sql,       \* validate_query_complete's argument sql
    business_id,   \* validate_query_complete's argument business_id
    pc,            \* the statement the call is about to execute
    sql,           \* validate_and_secure_sql's local sql
    sql_upper,     \* validate_and_secure_sql's local sql_upper (line 36)
    outcome,       \* what the call returned or raised
    log,           \* the messages logged by the call, in order
    history,       \* the finished calls: arguments and outcome
    sessions,      \* chat_websocket's and execute_mcp_tool's locals, per connection
    wire,          \* the HTTP requests and replies in flight to and from the MCP server
    executed,      \* the statements the MCP server has run, with their connection
    imported,      \* validate_query_complete as app.py line 13 imports it
    translation_service,  \* app.py lines 68-73: TRUE when the service was built, FALSE for None
    ws,            \* where the coroutine of chat_websocket stands
    ws_business_id,\* chat_websocket's local business_id ("" for None)
    ws_user_id,    \* chat_websocket's local user_id ("" for None)
    message,       \* the message under way, stripped (app.py line 412)
    detected_language,  \* process_message_with_translation's local
    query_type,    \* process_message_with_translation's local (app.py line 205)
    tools,         \* TRUE when the pending model call was given MCP_TOOLS
    generated_sql, \* process_message_with_translation's local ("" for None)
    query_success, \* process_message_with_translation's local
    tool_result,   \* what execute_mcp_tool returned for the message
    response_text, \* what process_message_with_translation returns
    received,      \* the frames the message loop has received, in order
    sent,          \* the frames sent to the client, in order
    posted,        \* the calls of mcp_client.execute_query, in order
    logged,        \* the calls of log_interaction_to_mcp, in order
    db_pool,       \* server.py line 47: TRUE for a pool, FALSE for None
    admin_connections,  \* server.py line 53: the admin sockets registered
    admin,         \* each admin socket: its client and its handler
    request,       \* where the handler of POST /query stands
    request_sql,   \* request.sql of the request under way
    iterator,      \* the set iterator of server.py line 556
    disconnected,  \* broadcast_to_admins' local set
    delivered,     \* the admin sockets the broadcast under way has reached
    fetched,       \* the statements passed to conn.fetch, in order
    responses      \* the HTTP responses of POST /query, in order

\* One connection of the chat endpoint, step by step.
chat == <<translation_service, ws, ws_business_id, ws_user_id, message,
          detected_language, query_type, tools, generated_sql, query_success,
          tool_result, response_text, received, sent, posted, logged>>

\* The MCP server: its pool, its admin sockets and one request at a time.
server == <<db_pool, admin_connections, admin, request, request_sql, iterator,
            disconnected, delivered, fetched, responses>>

vars == <<normSide, kwSide, filterSide, raw_sql, business_id, pc, sql,
          sql_upper, outcome, log, history, sessions, wire, executed,
          imported, chat, server>>

\* The state of the connections and of the MCP server, which a single call
\* of the validator leaves alone.
connections == <<sessions, wire, executed, imported, chat, server>>

\* The state of the single call, which the connections leave alone.
validator == <<normSide, kwSide, filterSide, raw_sql, business_id, pc, sql,
               sql_upper, outcome, log, history>>

\* What a step of the chat connection leaves alone.
beyondChat == <<validator, sessions, wire, executed, imported, server>>

\* What a step of the MCP server leaves alone.
beyondServer == <<validator, sessions, wire, executed, imported, chat>>

\* The connections of the chat endpoint.
SessionIds == {"s1", "s2"}

\* A connection before its first message (app.py lines 377-379); init_data
\* is the business_id its client sends, business_id the coroutine's local.
NoSession == [pc |-> "connect", init_data |-> "", business_id |-> "",
              sql_query |-> "",
              secured_query |-> "",
              result |-> [success |-> FALSE, rows_of |-> ""], handled |-> 0]

sides == <<normSide, kwSide, filterSide>>

\* execute_mcp_tool has not been called for the message (app.py line 207:
\* query_success = False); results is the statement whose rows came back,
\* "" for the empty list.
NoToolResult == [success |-> FALSE, error |-> "", results |-> ""]

\* app.py lines 375-379 and 201-208: the connection is accepted, the
\* coroutine is about to receive init_data.
ChatStart ==
    /\ ws = "init"
    /\ ws_business_id = ""
    /\ ws_user_id = ""
    /\ message = ""
    /\ detected_language = "en"
    /\ query_type = "conversational"
    /\ tools = FALSE
    /\ generated_sql = ""
    /\ query_success = FALSE
    /\ tool_result = NoToolResult
    /\ response_text = ""
    /\ received = << >>
    /\ sent = << >>
    /\ posted = << >>
    /\ logged = << >>

\* The admin sockets that may connect to /ws/admin.
Admins == {"a1", "a2"}

\* The iterator of a set: the size of the set when the iterator was made
\* (a set iterator raises RuntimeError when the size has changed), the
\* members it has yielded, whether the set was changed under it, and the
\* members the set had when it was made.  Here: no iteration under way.
NoIterator == [used |-> 0, seen |-> {}, changed |-> FALSE, start |-> {}]

\* server.py lines 47-53 after startup: no admin, no request.
ServerStart ==
    /\ admin_connections = {}
    /\ admin = [a \in Admins |-> "none"]
    /\ request = "idle"
    /\ request_sql = ""
    /\ iterator = NoIterator
    /\ disconnected = {}
    /\ delivered = {}
    /\ fetched = << >>
    /\ responses = << >>

Pending == [kind |-> "pending", sql |-> ""]

\* return None
Rejected == [kind |-> "rejected", sql |-> ""]

\* an exception leaves validate_query_complete
Raised == [kind |-> "raised", sql |-> ""]

\* return secured_sql
Secured(text) == [kind |-> "secured", sql |-> text]

TypeOK ==
    /\ normSide \in Sides /\ kwSide \in Sides /\ filterSide \in Sides
    /\ business_id \in TenantIds
    /\ pc \in {"normalize", "check_select", "check_keywords", "check_statements",
               "inject", "verify", "limit", "allowlist", "done"}
    /\ outcome.kind \in {"pending", "rejected", "raised", "secured"}
    /\ Len(history) <= MaxCalls

Init ==
    /\ normSide \in Sides
    /\ kwSide \in Sides
    /\ filterSide \in Sides
    /\ raw_sql \in RawStatements
    /\ business_id \in TenantIds
    /\ pc = "normalize"
    /\ sql = raw_sql
    /\ sql_upper = ""
    /\ outcome = Pending
    /\ log = << >>
    /\ history = << >>
    /\ sessions = [s \in SessionIds |-> NoSession]
    /\ wire = {}
    /\ executed = {}
    /\ imported = << >>
    /\ translation_service = TRUE
    /\ ChatStart
    /\ db_pool = TRUE
    /\ ServerStart

\* The call ends with result r, after logging msg.
Finish(r, msg) ==
    /\ pc' = "done"
    /\ outcome' = r
    /\ log' = IF msg = "" THEN log ELSE Append(log, msg)
    /\ history' = Append(history,
                         [raw_sql |-> raw_sql, business_id |-> business_id,
                          outcome |-> r])

\* The call goes on at statement next.
Goto(next) ==
    /\ pc' = next
    /\ UNCHANGED <<outcome, log, history>>

\* Lines 14-36
NormalizeStep ==
    /\ pc = "normalize"
    /\ sql' = Normalize(normSide, sql)
    /\ sql_upper' = Upper(sql')
    /\ Goto("check_select")
    /\ UNCHANGED <<connections, sides, raw_sql, business_id>>

\* Lines 38-41
CheckSelect ==
    /\ pc = "check_select"
    /\ IF ~IsSelect(sql_upper)
       THEN Finish(Rejected, "Rejected non-SELECT query")
       ELSE Goto("check_keywords")
    /\ UNCHANGED <<connections, sides, raw_sql, business_id, sql, sql_upper>>

\* Lines 43-59
CheckKeywords ==
    /\ pc = "check_keywords"
    /\ IF HasDangerous(kwSide, sql_upper)
       THEN Finish(Rejected, "Rejected query with dangerous keyword")
       ELSE Goto("check_statements")
    /\ UNCHANGED <<connections, sides, raw_sql, business_id, sql, sql_upper>>

\* Lines 61-64
CheckStatements ==
    /\ pc = "check_statements"
    /\ IF HasMultipleStatements(sql)
       THEN Finish(Rejected, "Rejected query with multiple statements")
       ELSE Goto("inject")
    /\ UNCHANGED <<connections, sides, raw_sql, business_id, sql, sql_upper>>

\* Lines 66-67
Inject ==
    /\ pc = "inject"
    /\ LET r == AddBusinessFilter(filterSide, sql, business_id)
       IN  IF r.raised
           THEN Finish(Raised, "") /\ UNCHANGED sql
           ELSE sql' = r.sql /\ Goto("verify")
    /\ UNCHANGED <<connections, sides, raw_sql, business_id, sql_upper>>

\* Lines 69-72, followed at once by the call of line 276: the verified text
\* goes to the allowlist without passing lines 74-76.
VerifyThenAllowlist ==
    /\ pc = "verify"
    /\ IF ~FilterPresent(sql, business_id)
       THEN Finish(Rejected, "Failed to add business_id filter to query")
       ELSE Goto("allowlist")
    /\ UNCHANGED <<connections, sides, raw_sql, business_id, sql, sql_upper>>

\* Lines 69-72
Verify ==
    /\ pc = "verify"
    /\ IF ~FilterPresent(sql, business_id)
       THEN Finish(Rejected, "Failed to add business_id filter to query")
       ELSE Goto("limit")
    /\ UNCHANGED <<connections, sides, raw_sql, business_id, sql, sql_upper>>

\* Lines 74-80 and 270-273: the limit, the return, and the caller's test of
\* the returned text.
Limit ==
    /\ pc = "limit"
    /\ sql' = EnforceLimit(sql, sql_upper)
    /\ IF sql' = "" THEN Finish(Rejected, "") ELSE Goto("allowlist")
    /\ UNCHANGED <<connections, sides, raw_sql, business_id, sql_upper>>

\* Lines 275-282
Allowlist ==
    /\ pc = "allowlist"
    /\ IF ~ValidateAllowedTables(sql, ALLOWED_TABLES)
       THEN Finish(Rejected, "Query accesses unauthorized tables")
       ELSE Finish(Secured(sql), "Query validated successfully")
    /\ UNCHANGED <<connections, sides, raw_sql, business_id, sql, sql_upper>>

\* The caller calls validate_query_complete(next_sql, business_id) anew.
Call(next_sql) ==
    /\ raw_sql' = next_sql
    /\ sql' = next_sql
    /\ sql_upper' = ""
    /\ pc' = "normalize"
    /\ outcome' = Pending
    /\ log' = << >>
    /\ UNCHANGED <<connections, sides, business_id, history>>

\* The same statement is submitted once more.
Repeat ==
    /\ pc = "done"
    /\ Len(history) < MaxCalls
    /\ Call(raw_sql)

\* The secured statement is submitted as the next raw statement.
Resubmit ==
    /\ pc = "done"
    /\ Len(history) < MaxCalls
    /\ outcome.kind = "secured"
    /\ Call(outcome.sql)

Next ==
    \/ NormalizeStep
    \/ CheckSelect
    \/ CheckKeywords
    \/ CheckStatements
    \/ Inject
    \/ Verify
    \/ Limit
    \/ Allowlist
    \/ Repeat
    \/ Resubmit

\* validate_query_complete(raw, id) as one function of its arguments, on the
\* resolution (norm, kw, filt): the outcome, and the statement that ended
\* the call.
Evaluate(norm, kw, filt, raw, id) ==
    LET s0 == Normalize(norm, raw)
        up == Upper(s0)
        r  == AddBusinessFilter(filt, s0, id)
        s2 == EnforceLimit(r.sql, up)
    IN  IF ~IsSelect(up) THEN [outcome |-> Rejected, at |-> "check_select"]
        ELSE IF HasDangerous(kw, up)
             THEN [outcome |-> Rejected, at |-> "check_keywords"]
        ELSE IF HasMultipleStatements(s0)
             THEN [outcome |-> Rejected, at |-> "check_statements"]
        ELSE IF r.raised THEN [outcome |-> Raised, at |-> "inject"]
        ELSE IF ~FilterPresent(r.sql, id)
             THEN [outcome |-> Rejected, at |-> "verify"]
        ELSE IF s2 = "" THEN [outcome |-> Rejected, at |-> "limit"]
        ELSE IF ~ValidateAllowedTables(s2, ALLOWED_TABLES)
             THEN [outcome |-> Rejected, at |-> "allowlist"]
        ELSE [outcome |-> Secured(s2), at |-> "allowlist"]

validate_query_complete(norm, kw, filt, raw, id) ==
    Evaluate(norm, kw, filt, raw, id).outcome

Spec == Init /\ [][Next]_vars

\* The tenant ids without a quote, a backslash or a semicolon.
PlainTenantIds == {"t1", "t2"}

\* The same calls, made for the plain tenant ids only.
InitPlainIds == Init /\ business_id \in PlainTenantIds

SpecPlainIds == InitPlainIds /\ [][Next]_vars

(***************************************************************************)
(* Several connections at once.  Each coroutine of chat_websocket runs     *)
(* until its next await; validate_query_complete is synchronous, so a call *)
(* of it is one step of its connection.                                    *)
(***************************************************************************)

\* The messages a connection handles.
MaxMessages == 1

\* The statements the language model hands to the tool.
SessionQueries ==
    {"SELECT * FROM sales",
     "SELECT * FROM sales WHERE business_id = 't2' OR business_id = 't1'",
     "SELECT * FROM secrets"}

\* execute_mcp_tool's result when the statement was not run (app.py lines
\* 113-118 and 136-143).
Failure == [success |-> FALSE, rows_of |-> ""]

\* The rows the server returns for statement text (app.py lines 129-134);
\* as the body of a request, the statement to run.
Rows(text) == [success |-> TRUE, rows_of |-> text]

\* Lines 372-394 with business_id kept in a variable of the module instead
\* of a local of the coroutine: every connection reads the id of the
\* connection that came last.
ConnectGlobal(s, id) ==
    /\ sessions[s].pc = "connect"
    /\ sessions' = [t \in SessionIds |->
                       IF t = s
                       THEN [sessions[t] EXCEPT !.pc = "receive",
                                                !.init_data = id,
                                                !.business_id = id]
                       ELSE [sessions[t] EXCEPT !.business_id = id]]
    /\ UNCHANGED <<wire, executed, validator, imported, chat, server>>

\* app.py lines 372-394: the connection is accepted and its first message
\* gives the business_id the coroutine keeps in a local.
Connect(s, id) ==
    /\ sessions[s].pc = "connect"
    /\ sessions' = [sessions EXCEPT ![s].pc = "receive", ![s].init_data = id,
                                    ![s].business_id = id]
    /\ UNCHANGED <<wire, executed, validator, imported, chat, server>>

\* app.py lines 399-421 and 241-262: a message arrives and the language
\* model answers it with a call of the tool for statement q.
Receive(s, q) ==
    /\ sessions[s].pc = "receive"
    /\ sessions[s].handled < MaxMessages
    /\ sessions' = [sessions EXCEPT ![s].pc = "validate", ![s].sql_query = q,
                                    ![s].secured_query = "",
                                    ![s].result = Failure]
    /\ UNCHANGED <<wire, executed, validator, imported, chat, server>>

\* app.py lines 105-124: execute_mcp_tool validates the statement with the
\* connection's own business_id and, when it is secured, posts it to the
\* MCP server (mcp_client.py lines 12-20) and awaits the reply.
ExecuteMcpTool(s) ==
    /\ sessions[s].pc = "validate"
    /\ LET r == imported[sessions[s].sql_query, sessions[s].business_id]
       IN  IF r.kind = "secured"
           THEN /\ sessions' = [sessions EXCEPT ![s].pc = "await",
                                                ![s].secured_query = r.sql]
                /\ wire' = wire \cup {[kind |-> "request", session |-> s,
                                       body |-> Rows(r.sql)]}
           ELSE /\ sessions' = [sessions EXCEPT
                                    ![s].pc = "receive",
                                    ![s].result = Failure,
                                    ![s].handled = sessions[s].handled + 1]
                /\ UNCHANGED wire
    /\ UNCHANGED <<executed, validator, imported, chat, server>>

\* server.py lines 232-276: the server runs the statement of one request on
\* a pooled connection and replies on the request's own HTTP connection.
ExecuteQuery(m) ==
    /\ m \in wire
    /\ m.kind = "request"
    /\ IF StartsWith(Upper(Strip(m.body.rows_of)), "SELECT")
       THEN /\ executed' = executed \cup {[session |-> m.session,
                                           sql |-> m.body.rows_of]}
            /\ wire' = (wire \ {m}) \cup
                       {[kind |-> "reply", session |-> m.session,
                         body |-> Rows(m.body.rows_of)]}
       ELSE /\ wire' = (wire \ {m}) \cup
                       {[kind |-> "reply", session |-> m.session,
                         body |-> Failure]}
            /\ UNCHANGED executed
    /\ UNCHANGED <<sessions, validator, imported, chat, server>>

\* app.py lines 124-134: the awaited reply comes back to its coroutine.
Reply(m) ==
    /\ m \in wire
    /\ m.kind = "reply"
    /\ sessions[m.session].pc = "await"
    /\ sessions' = [sessions EXCEPT
                        ![m.session].pc = "receive",
                        ![m.session].result = m.body,
                        ![m.session].handled = sessions[m.session].handled + 1]
    /\ wire' = wire \ {m}
    /\ UNCHANGED <<executed, validator, imported, chat, server>>

\* The validator's own variables play no part while connections run; the
\* imported function is the one of the resolution in force, on the
\* arguments the connections can pass to it.
InitSessions ==
    /\ normSide \in Sides
    /\ kwSide \in Sides
    /\ filterSide \in Sides
    /\ raw_sql = ""
    /\ business_id = "t1"
    /\ pc = "done"
    /\ sql = ""
    /\ sql_upper = ""
    /\ outcome = Rejected
    /\ log = << >>
    /\ history = << >>
    /\ sessions = [s \in SessionIds |-> NoSession]
    /\ wire = {}
    /\ executed = {}
    /\ imported = [q \in SessionQueries, id \in PlainTenantIds |->
                       validate_query_complete(normSide, kwSide, filterSide,
                                               q, id)]
    /\ translation_service = TRUE
    /\ ChatStart
    /\ db_pool = TRUE
    /\ ServerStart

NextSessions ==
    \/ \E s \in SessionIds : \E id \in PlainTenantIds : Connect(s, id)
    \/ \E s \in SessionIds : \E q \in SessionQueries : Receive(s, q)
    \/ \E s \in SessionIds : ExecuteMcpTool(s)
    \/ \E m \in wire : ExecuteQuery(m)
    \/ \E m \in wire : Reply(m)

SpecSessions == InitSessions /\ [][NextSessions]_vars

(***************************************************************************)
(* The chat endpoint of app.py, one connection step by step: the pure      *)
(* parts first (translation_service.py, query_router.py).                  *)
(***************************************************************************)

\* sum(1 for indicator in indicators if indicator in text): the entries of
\* the list found in text, an entry written twice counting twice.
IndicatorCount(indicators, text) ==
    Cardinality({i \in 1..Len(indicators) : Contains(text, indicators[i])})

\* translation_service.py lines 52-72
swahili_indicators ==
    <<"habari", "mambo", "hujambo", "shikamoo", "vipi",
      "nionyeshe", "nina", "niko", "nataka", "ninahitaji",
      "tafadhali", "nitumie", "nipatie",
      "mauzo", "bidhaa", "bei", "gharama", "faida",
      "hifadhi", "duka", "mteja",
      "leo", "jana", "kesho", "wiki", "mwezi", "mwaka",
      "je", "nini", "ngapi", "vipi", "lini", "wapi",
      "ya", "za", "wa", "na", "kwa", "au", "ni",
      "jumla", "kiasi", "pesa", "shilingi">>

\* translation_service.py lines 42-86
detect_language(text) ==
    IF IndicatorCount(swahili_indicators, Lower(text)) >= 2 THEN "sw" ELSE "en"

\* query_router.py lines 20-63
data_query_indicators(lang_key) ==
    IF lang_key = "english"
    THEN <<"show", "display", "list", "get", "find", "see",
           "how many", "how much", "what is", "what are", "which",
           "what's", "whats",
           "sales", "revenue", "profit", "income", "earnings",
           "total", "sum", "count",
           "inventory", "stock", "products", "expenses", "cost",
           "items", "goods",
           "my sales", "my products", "my inventory", "my expenses",
           "this month", "this week", "today", "yesterday",
           "low stock", "out of stock", "best selling", "top products">>
    ELSE <<"nionyeshe", "orodha", "tazama", "pata", "onyesha",
           "ni ngapi", "ni kiasi gani", "ni nini", "zipi",
           "mauzo", "mapato", "faida", "jumla", "hesabu",
           "bidhaa", "hifadhi", "stock", "gharama", "matumizi",
           "vitu",
           "mauzo yangu", "bidhaa zangu", "hifadhi yangu",
           "mwezi huu", "wiki hii", "leo", "jana",
           "bidhaa zinazokaribia kuisha", "zinazouzwa zaidi">>

\* query_router.py lines 66-99
conversational_indicators(lang_key) ==
    IF lang_key = "english"
    THEN <<"hello", "hi", "hey", "greetings",
           "how are you", "what's up", "whats up",
           "what can you do", "help me", "can you help",
           "how can i improve", "how should i", "what should i do",
           "advice", "suggest", "recommend", "tips",
           "best practice", "strategy">>
    ELSE <<"habari", "mambo", "vipi", "hujambo", "shikamoo",
           "uko aje", "unafanya nini",
           "unaweza nini", "nisaidie", "unaweza kunisaidia",
           "ninawezaje kuboresha", "nifanye nini", "nipendekeze",
           "ushauri", "mapendekezo", "mikakati",
           "mbinu bora">>

\* \bfirst\s+(a|b|...)\b matches at position i of s, for the words rest.
PhraseAt(s, i, first, rest) ==
    LET j == RunEnd(s, i + Len(first), SpaceChars)
    IN  /\ MatchAt(s, i, first)
        /\ BoundaryAt(s, i)
        /\ j > i + Len(first)
        /\ \E w \in rest : MatchAt(s, j, w) /\ BoundaryAt(s, j + Len(w))

\* \blast\s+\d+\s+(days|weeks|months)\b matches at position i of s.
LastDaysAt(s, i) ==
    LET j == RunEnd(s, i + 4, SpaceChars)
        k == RunEnd(s, j, DigitSet)
        n == RunEnd(s, k, SpaceChars)
    IN  /\ MatchAt(s, i, "last")
        /\ BoundaryAt(s, i)
        /\ j > i + 4 /\ k > j /\ n > k
        /\ \E w \in {"days", "weeks", "months"} :
               MatchAt(s, n, w) /\ BoundaryAt(s, n + Len(w))

\* query_router.py lines 102-112 and 127-131: one of data_patterns is found
\* in query_lower.
MatchesDataPattern(query_lower) ==
    \E i \in 1..Len(query_lower) :
        \/ PhraseAt(query_lower, i, "my",
                    {"sales", "products", "inventory", "expenses", "stock"})
        \/ PhraseAt(query_lower, i, "this", {"month", "week", "year", "quarter"})
        \/ LastDaysAt(query_lower, i)
        \/ PhraseAt(query_lower, i, "how", {"many"})
        \/ PhraseAt(query_lower, i, "how", {"much"})
        \/ PhraseAt(query_lower, i, "total", {"sales", "revenue", "expenses"})
        \/ PhraseAt(query_lower, i, "mauzo", {"yangu"})
        \/ PhraseAt(query_lower, i, "mwezi", {"huu"})
        \/ PhraseAt(query_lower, i, "wiki", {"hii"})

\* query_router.py lines 114-173
is_data_query(query, language) ==
    LET query_lower == Lower(query)
        lang_key == IF language = "sw" THEN "swahili" ELSE "english"
        data_matches == IndicatorCount(data_query_indicators(lang_key), query_lower)
        chat_matches == IndicatorCount(conversational_indicators(lang_key), query_lower)
    IN  IF MatchesDataPattern(query_lower) THEN TRUE
        ELSE IF data_matches = 0 /\ chat_matches = 0 THEN FALSE
        ELSE IF data_matches > 0 /\ chat_matches = 0 THEN TRUE
        ELSE IF data_matches = 0 /\ chat_matches > 0 THEN FALSE
        ELSE data_matches >= chat_matches

(***************************************************************************)
(* chat_websocket and process_message_with_translation.  The coroutine     *)
(* runs from one await to the next in one step; ws names the await it      *)
(* stands at.                                                              *)
(***************************************************************************)

\* The frames the message loop takes before the model stops.
MaxChatMessages == 2

\* The business_id and user_id of an init frame ("" when the key is missing
\* or empty).
InitBusinessIds == {"", "t1"}

InitUserIds == {"", "u1"}

\* The text of the 'message' key of a frame.
ChatMessages == {"  ", "hello", "mauzo yangu leo"}

\* What translate_sw_to_en may give for a message (the output of the
\* translation model; the message itself when the translation fails).
Translations(text) == {text, "my sales today"}

\* The statements the language model may put in tool_input['query'].
ToolQueries ==
    {"SELECT * FROM sales",
     "SELECT * FROM sales WHERE business_id = 't1' LIMIT 5",
     "DROP TABLE sales"}

\* A frame received by the coroutine.
InitFrame(b, u) == [kind |-> "init", business_id |-> b, user_id |-> u, text |-> ""]

MessageFrame(text) ==
    [kind |-> "message", business_id |-> "", user_id |-> "", text |-> text]

\* A frame that is not a JSON object with a string under 'message'.
MalformedFrame ==
    [kind |-> "malformed", business_id |-> "", user_id |-> "", text |-> ""]

\* A frame sent to the client.
Frame(type, content) == [type |-> type, content |-> content]

\* The frames the message loop has taken so far.
LoopFrames == {i \in 1..Len(received) : received[i].kind # "init"}

\* The messages that went into process_message_with_translation.
Processed ==
    {i \in 1..Len(received) :
        received[i].kind = "message" /\ Strip(received[i].text) # ""}

\* app.py lines 383-407 without the test of line 387: the loop is entered
\* whatever the first frame holds.
ReceiveInitUnchecked(b, u) ==
    /\ ws = "init"
    /\ received' = Append(received, InitFrame(b, u))
    /\ ws_business_id' = b
    /\ ws_user_id' = u
    /\ sent' = Append(sent, Frame("connected", ""))
    /\ ws' = "loop"
    /\ UNCHANGED <<translation_service, message, detected_language, query_type,
                   tools, generated_sql, query_success, tool_result,
                   response_text, posted, logged>>
    /\ UNCHANGED beyondChat

\* app.py lines 383-407: the first frame.  With business_id or user_id
\* missing, one error is sent and the coroutine returns.
ReceiveInit(b, u) ==
    /\ ws = "init"
    /\ received' = Append(received, InitFrame(b, u))
    /\ ws_business_id' = b
    /\ ws_user_id' = u
    /\ IF b = "" \/ u = ""
       THEN /\ sent' = Append(sent, Frame("error", "business_id and user_id are required"))
            /\ ws' = "closed"
       ELSE /\ sent' = Append(sent, Frame("connected", ""))
            /\ ws' = "loop"
    /\ UNCHANGED <<translation_service, message, detected_language, query_type,
                   tools, generated_sql, query_success, tool_result,
                   response_text, posted, logged>>
    /\ UNCHANGED beyondChat

\* The index in received of the message under way.
Current == Len(received)

\* app.py lines 432-433: the client goes away while the coroutine waits for
\* a frame; receive_json raises WebSocketDisconnect.
ClientLeaves ==
    /\ ws \in {"init", "loop"}
    /\ ws' = "closed"
    /\ UNCHANGED <<translation_service, ws_business_id, ws_user_id, message,
                   detected_language, query_type, tools, generated_sql,
                   query_success, tool_result, response_text, received, sent,
                   posted, logged>>
    /\ UNCHANGED beyondChat

\* app.py lines 434-442: a frame that cannot be read as the code expects
\* raises in lines 383-385 or 411-412; the error is sent and the coroutine
\* ends.
ReceiveMalformed ==
    /\ ws \in {"init", "loop"}
    /\ Cardinality(LoopFrames) < MaxChatMessages
    /\ received' = Append(received, MalformedFrame)
    /\ sent' = Append(sent, Frame("error", "exception"))
    /\ ws' = "closed"
    /\ UNCHANGED <<translation_service, ws_business_id, ws_user_id, message,
                   detected_language, query_type, tools, generated_sql,
                   query_success, tool_result, response_text, posted, logged>>
    /\ UNCHANGED beyondChat

\* app.py line 247 with tools=MCP_TOOLS whatever the classification.
ToolsOfferedAlways(data) == TRUE

\* app.py line 247: tools=MCP_TOOLS if is_data_query else []
ToolsOffered(data) == data

\* app.py lines 410-415: an empty message; the loop goes on to the next
\* frame.
\* app.py lines 410-422 and 201-248 otherwise: the language is detected, the
\* message translated (english is what translate_sw_to_en gives) and
\* classified, and the model is called with MCP_TOOLS for a data query and
\* with no tool otherwise.
ReceiveMessage(text, english) ==
    /\ ws = "loop"
    /\ Cardinality(LoopFrames) < MaxChatMessages
    /\ received' = Append(received, MessageFrame(text))
    /\ LET m == Strip(text)
           lang == IF translation_service THEN detect_language(m) ELSE "en"
           message_english == IF translation_service /\ lang = "sw"
                              THEN english ELSE m
           data == is_data_query(message_english, lang)
       IN  IF m = ""
           THEN UNCHANGED <<ws, message, detected_language, query_type, tools,
                            generated_sql, query_success, tool_result,
                            response_text>>
           ELSE /\ message' = m
                /\ detected_language' = lang
                /\ query_type' = IF data THEN "data_query" ELSE "conversational"
                /\ tools' = ToolsOffered(data)
                /\ generated_sql' = ""
                /\ query_success' = FALSE
                /\ tool_result' = NoToolResult
                /\ response_text' = ""
                /\ ws' = "model"
    /\ UNCHANGED <<translation_service, ws_business_id, ws_user_id, sent,
                   posted, logged>>
    /\ UNCHANGED beyondChat

\* The texts process_message_with_translation can return: the text of the
\* model's response (translated back or not), the default of lines 300-303
\* for a second response without a text block, the apology of lines 364-367.
Answer == "answer"

NoTextBlock == "I couldn't generate a response."

Apology == "I apologize, but I encountered an error. Please try again."

\* app.py lines 304-317: the model answers without a tool.
ModelAnswers ==
    /\ ws = "model"
    /\ query_success' = TRUE
    /\ response_text' = Answer
    /\ ws' = "log"
    /\ UNCHANGED <<translation_service, ws_business_id, ws_user_id, message,
                   detected_language, query_type, tools, generated_sql,
                   tool_result, received, sent, posted, logged>>
    /\ UNCHANGED beyondChat

\* The result of execute_mcp_tool when the statement did not run (app.py
\* lines 113-118 and 136-143).
ToolFailure(error) == [success |-> FALSE, error |-> error, results |-> ""]

\* A call of mcp_client.execute_query (app.py line 124) for message n.
Posting(n, query, text) ==
    [n |-> n, query |-> query, sql |-> text, business_id |-> ws_business_id,
     query_type |-> query_type]

\* app.py lines 253-268 with the model's statement passed to
\* mcp_client.execute_query as it came, without validate_query_complete.
ModelRequestsToolRaw(q) ==
    /\ ws = "model"
    /\ tools
    /\ generated_sql' = q
    /\ posted' = Append(posted, Posting(Current, q, q))
    /\ ws' = "mcp"
    /\ UNCHANGED <<translation_service, ws_business_id, ws_user_id, message,
                   detected_language, query_type, tools, tool_result,
                   query_success, response_text, received, sent, logged>>
    /\ UNCHANGED beyondChat

\* app.py lines 253-268 and 105-124: the model stops with tool_use, which
\* the API gives only for a tool of the request; execute_mcp_tool validates
\* the statement for the connection's business_id and posts the secured
\* statement, or returns the failure at once.
ModelRequestsTool(q) ==
    /\ ws = "model"
    /\ tools
    /\ generated_sql' = q
    /\ LET r == imported[q, ws_business_id]
       IN  IF r.kind = "secured"
           THEN /\ posted' = Append(posted, Posting(Current, q, r.sql))
                /\ ws' = "mcp"
                /\ UNCHANGED <<tool_result, query_success, tools>>
           ELSE /\ tool_result' =
                       IF r.kind = "raised"
                       THEN ToolFailure("Database query failed")
                       ELSE ToolFailure("Invalid SQL query - security validation failed")
                /\ query_success' = FALSE
                /\ tools' = TRUE
                /\ ws' = "final"
                /\ UNCHANGED posted
    /\ UNCHANGED <<translation_service, ws_business_id, ws_user_id, message,
                   detected_language, query_type, response_text, received,
                   sent, logged>>
    /\ UNCHANGED beyondChat

\* app.py lines 240-266 and 341-342: the call of the model raises, or its
\* tool_use block has no 'query'; the handler of line 341 takes over.
ModelFails ==
    /\ ws = "model"
    /\ ws' = "log_error"
    /\ UNCHANGED <<translation_service, ws_business_id, ws_user_id, message,
                   detected_language, query_type, tools, generated_sql,
                   query_success, tool_result, response_text, received, sent,
                   posted, logged>>
    /\ UNCHANGED beyondChat

\* app.py lines 124-134 and 270-298: the server's rows come back and the
\* model is called again, with MCP_TOOLS.
McpReturns ==
    /\ ws = "mcp"
    /\ tool_result' = [success |-> TRUE, error |-> "",
                       results |-> posted[Len(posted)].sql]
    /\ query_success' = TRUE
    /\ tools' = TRUE
    /\ ws' = "final"
    /\ UNCHANGED <<translation_service, ws_business_id, ws_user_id, message,
                   detected_language, query_type, generated_sql,
                   response_text, received, sent, posted, logged>>
    /\ UNCHANGED beyondChat

\* app.py line 124 with its exception caught nowhere before the handler of
\* chat_websocket (lines 434-442): the error is sent and the coroutine
\* ends.
McpFailsUncaught ==
    /\ ws = "mcp"
    /\ sent' = Append(sent, Frame("error", "exception"))
    /\ ws' = "closed"
    /\ UNCHANGED <<translation_service, ws_business_id, ws_user_id, message,
                   detected_language, query_type, tools, generated_sql,
                   query_success, tool_result, response_text, received,
                   posted, logged>>
    /\ UNCHANGED beyondChat

\* app.py lines 124 and 136-143, then 270-298: the call of the server
\* raises (HTTP error, timeout); execute_mcp_tool returns the failure and
\* the model is called again.
McpFails ==
    /\ ws = "mcp"
    /\ tool_result' = ToolFailure("Database query failed")
    /\ query_success' = FALSE
    /\ tools' = TRUE
    /\ ws' = "final"
    /\ UNCHANGED <<translation_service, ws_business_id, ws_user_id, message,
                   detected_language, query_type, generated_sql,
                   response_text, received, sent, posted, logged>>
    /\ UNCHANGED beyondChat

\* app.py lines 300-317: the second response.  Its first text block is the
\* answer; a response that asks for the tool again and holds no text gives
\* the default text, and nothing is executed.
FinalAnswers(stop_reason) ==
    /\ ws = "final"
    /\ response_text' = IF stop_reason = "tool_use" THEN NoTextBlock ELSE Answer
    /\ ws' = "log"
    /\ UNCHANGED <<translation_service, ws_business_id, ws_user_id, message,
                   detected_language, query_type, tools, generated_sql,
                   query_success, tool_result, received, sent, posted, logged>>
    /\ UNCHANGED beyondChat

\* app.py lines 279 and 341-342: the second call of the model raises.
FinalFails ==
    /\ ws = "final"
    /\ ws' = "log_error"
    /\ UNCHANGED <<translation_service, ws_business_id, ws_user_id, message,
                   detected_language, query_type, tools, generated_sql,
                   query_success, tool_result, response_text, received, sent,
                   posted, logged>>
    /\ UNCHANGED beyondChat

\* A call of log_interaction_to_mcp for message n (app.py lines 146-185;
\* what its POST raises is caught at line 184).
Logging(n, success) ==
    [n |-> n, business_id |-> ws_business_id, generated_sql |-> generated_sql,
     query_success |-> success]

\* app.py lines 319-339
LogInteraction ==
    /\ ws = "log"
    /\ logged' = Append(logged, Logging(Current, query_success))
    /\ ws' = "send"
    /\ UNCHANGED <<translation_service, ws_business_id, ws_user_id, message,
                   detected_language, query_type, tools, generated_sql,
                   query_success, tool_result, response_text, received, sent,
                   posted>>
    /\ UNCHANGED beyondChat

\* app.py lines 341-369 without the call of lines 349-361: the apology is returned
\* and nothing is logged.
ReturnApologyUnlogged ==
    /\ ws = "log_error"
    /\ response_text' = Apology
    /\ ws' = "send"
    /\ UNCHANGED <<translation_service, ws_business_id, ws_user_id, message,
                   detected_language, query_type, tools, generated_sql,
                   query_success, tool_result, received, sent, posted, logged>>
    /\ UNCHANGED beyondChat

\* app.py lines 341-369: the failed interaction is logged and the apology
\* returned.
LogFailedInteraction ==
    /\ ws = "log_error"
    /\ logged' = Append(logged, Logging(Current, FALSE))
    /\ response_text' = Apology
    /\ ws' = "send"
    /\ UNCHANGED <<translation_service, ws_business_id, ws_user_id, message,
                   detected_language, query_type, tools, generated_sql,
                   query_success, tool_result, received, sent, posted>>
    /\ UNCHANGED beyondChat

\* app.py lines 424-430
SendReply ==
    /\ ws = "send"
    /\ sent' = Append(sent, Frame("message", response_text))
    /\ ws' = "loop"
    /\ UNCHANGED <<translation_service, ws_business_id, ws_user_id, message,
                   detected_language, query_type, tools, generated_sql,
                   query_success, tool_result, response_text, received,
                   posted, logged>>
    /\ UNCHANGED beyondChat

\* app.py lines 425 and 432-442: the client is gone when the reply is sent;
\* send_json raises and the coroutine ends.
SendFails ==
    /\ ws = "send"
    /\ ws' = "closed"
    /\ UNCHANGED <<translation_service, ws_business_id, ws_user_id, message,
                   detected_language, query_type, tools, generated_sql,
                   query_success, tool_result, response_text, received, sent,
                   posted, logged>>
    /\ UNCHANGED beyondChat

\* One connection; the validator is the one of the resolution in force, on
\* the arguments the connection can pass to it.
InitChat ==
    /\ normSide \in Sides
    /\ kwSide \in Sides
    /\ filterSide \in Sides
    /\ raw_sql = ""
    /\ business_id = "t1"
    /\ pc = "done"
    /\ sql = ""
    /\ sql_upper = ""
    /\ outcome = Rejected
    /\ log = << >>
    /\ history = << >>
    /\ sessions = [s \in SessionIds |-> NoSession]
    /\ wire = {}
    /\ executed = {}
    /\ imported = [q \in ToolQueries, id \in PlainTenantIds |->
                       validate_query_complete(normSide, kwSide, filterSide,
                                               q, id)]
    /\ translation_service \in BOOLEAN
    /\ ChatStart
    /\ db_pool = TRUE
    /\ ServerStart

NextChat ==
    \/ \E b \in InitBusinessIds : \E u \in InitUserIds : ReceiveInit(b, u)
    \/ ClientLeaves
    \/ ReceiveMalformed
    \/ \E text \in ChatMessages : \E english \in Translations(Strip(text)) :
           ReceiveMessage(text, english)
    \/ ModelAnswers
    \/ \E q \in ToolQueries : ModelRequestsTool(q)
    \/ ModelFails
    \/ McpReturns
    \/ McpFails
    \/ \E stop_reason \in {"end_turn", "tool_use"} : FinalAnswers(stop_reason)
    \/ FinalFails
    \/ LogInteraction
    \/ LogFailedInteraction
    \/ SendReply
    \/ SendFails

SpecChat == InitChat /\ [][NextChat]_vars

(***************************************************************************)
(* The MCP server (server.py): POST /query, the admin sockets and          *)
(* broadcast_to_admins.  Each coroutine runs from one await to the next in *)
(* one step.                                                               *)
(***************************************************************************)

\* The requests the server answers before the model stops.
MaxRequests == 2

\* request.sql of a request.
ServerStatements ==
    {"SELECT * FROM sales WHERE business_id = 't1' LIMIT 1000",
     "  select 1",
     "DROP TABLE sales"}

\* An HTTP response of POST /query: rows tells whether conn.fetch had
\* returned the rows of the statement.
Response(text, status, detail, rows) ==
    [sql |-> text, status |-> status, detail |-> detail, rows |-> rows]

\* server.py lines 506-507: an admin socket is accepted and registered.
AdminConnects(a) ==
    /\ admin[a] = "none"
    /\ admin' = [admin EXCEPT ![a] = "open"]
    /\ admin_connections' = admin_connections \cup {a}
    /\ iterator' = IF request = "broadcast"
                   THEN [iterator EXCEPT !.changed = TRUE] ELSE iterator
    /\ UNCHANGED <<db_pool, request, request_sql, disconnected, delivered,
                   fetched, responses>>
    /\ UNCHANGED beyondServer

\* The client of an admin socket goes away; its handler has not run yet and
\* the socket is still registered.
AdminLeaves(a) ==
    /\ admin[a] = "open"
    /\ admin' = [admin EXCEPT ![a] = "gone"]
    /\ UNCHANGED <<db_pool, admin_connections, request, request_sql, iterator,
                   disconnected, delivered, fetched, responses>>
    /\ UNCHANGED beyondServer

\* server.py lines 538-546: receive_json raises WebSocketDisconnect in the
\* handler of the socket, which unregisters it.
AdminHandlerEnds(a) ==
    /\ admin[a] = "gone"
    /\ admin' = [admin EXCEPT ![a] = "done"]
    /\ admin_connections' = admin_connections \ {a}
    /\ iterator' = IF request = "broadcast" /\ a \in admin_connections
                   THEN [iterator EXCEPT !.changed = TRUE] ELSE iterator
    /\ UNCHANGED <<db_pool, request, request_sql, disconnected, delivered,
                   fetched, responses>>
    /\ UNCHANGED beyondServer

\* server.py lines 246-249: sql.startswith("SELECT") for the trimmed,
\* uppercased statement.
IsSelectRequest(text) == StartsWith(Upper(Strip(text)), "SELECT")


\* server.py lines 232-256 without the test of lines 246-249.
QueryUnchecked(text) ==
    /\ request = "idle"
    /\ Len(responses) < MaxRequests
    /\ IF ~db_pool
       THEN /\ responses' = Append(responses,
                    Response(text, 500, "Database not initialized", FALSE))
            /\ UNCHANGED <<request, request_sql, fetched>>
       ELSE /\ request' = "fetch"
            /\ request_sql' = text
            /\ fetched' = Append(fetched, text)
            /\ UNCHANGED responses
    /\ UNCHANGED <<db_pool, admin_connections, admin, iterator, disconnected,
                   delivered>>
    /\ UNCHANGED beyondServer

\* server.py lines 232-256: a request arrives.  Without a pool it is
\* answered 500, a statement that is no SELECT is answered 400; otherwise a
\* connection is acquired and conn.fetch(request.sql) awaited.
Query(text) ==
    /\ request = "idle"
    /\ Len(responses) < MaxRequests
    /\ IF ~db_pool
       THEN /\ responses' = Append(responses,
                    Response(text, 500, "Database not initialized", FALSE))
            /\ UNCHANGED <<request, request_sql, fetched>>
       ELSE IF ~IsSelectRequest(text)
       THEN /\ responses' = Append(responses,
                    Response(text, 400, "Only SELECT queries are allowed", FALSE))
            /\ UNCHANGED <<request, request_sql, fetched>>
       ELSE /\ request' = "fetch"
            /\ request_sql' = text
            /\ fetched' = Append(fetched, text)
            /\ UNCHANGED responses
    /\ UNCHANGED <<db_pool, admin_connections, admin, iterator, disconnected,
                   delivered>>
    /\ UNCHANGED beyondServer

\* server.py lines 255 and 278-284: the database raises.
FetchFails ==
    /\ request = "fetch"
    /\ responses' = Append(responses,
                           Response(request_sql, 500, "Database error", FALSE))
    /\ request' = "idle"
    /\ UNCHANGED <<db_pool, admin_connections, admin, request_sql, iterator,
                   disconnected, delivered, fetched>>
    /\ UNCHANGED beyondServer

\* server.py lines 556-564 and 271-284: the for statement of line 556 asks
\* the iterator it for the next socket, with dis and del the failed and the
\* reached sockets so far.
\*  - The set has another size than when the iterator was made: RuntimeError
\*    leaves broadcast_to_admins, and line 282 answers 500.
\*  - A socket is yielded and the message sent to it (line 558): the send
\*    raises for a socket whose client is gone (lines 559-560).
\*  - No socket is left: lines 563-564 unregister the failed sockets and
\*    line 271 answers with the rows.
\* Of a set changed under the iterator without a change of size, the
\* iterator may yield any member, again or never.
Advance(it, dis, del) ==
    IF Cardinality(admin_connections) # it.used
    THEN /\ responses' = Append(responses,
                 Response(request_sql, 500, "Query failed", TRUE))
         /\ request' = "idle"
         /\ iterator' = it
         /\ disconnected' = dis
         /\ delivered' = del
         /\ UNCHANGED admin_connections
    ELSE \/ /\ it.changed \/ admin_connections \ it.seen = {}
            /\ admin_connections' = admin_connections \ dis
            /\ responses' = Append(responses,
                    Response(request_sql, 200, "", TRUE))
            /\ request' = "idle"
            /\ iterator' = it
            /\ disconnected' = dis
            /\ delivered' = del
         \/ \E w \in IF it.changed THEN admin_connections
                     ELSE admin_connections \ it.seen :
                /\ iterator' = [it EXCEPT !.seen = @ \cup {w}]
                /\ IF admin[w] = "open"
                   THEN delivered' = del \cup {w} /\ disconnected' = dis
                   ELSE disconnected' = dis \cup {w} /\ delivered' = del
                /\ request' = "broadcast"
                /\ UNCHANGED <<admin_connections, responses>>

\* server.py lines 255-271 and 549-558: the rows come back and
\* broadcast_to_admins is called.  With no admin registered it returns at
\* once; otherwise the iteration starts and runs to its first send.
FetchReturns ==
    /\ request = "fetch"
    /\ IF admin_connections = {}
       THEN /\ responses' = Append(responses,
                    Response(request_sql, 200, "", TRUE))
            /\ request' = "idle"
            /\ iterator' = NoIterator
            /\ disconnected' = {}
            /\ delivered' = {}
            /\ UNCHANGED admin_connections
       ELSE Advance([used |-> Cardinality(admin_connections), seen |-> {},
                     changed |-> FALSE, start |-> admin_connections], {}, {})
    /\ UNCHANGED <<db_pool, admin, request_sql, fetched>>
    /\ UNCHANGED beyondServer

\* server.py lines 556-564: the send returns and the loop goes on.
BroadcastNext ==
    /\ request = "broadcast"
    /\ Advance(iterator, disconnected, delivered)
    /\ UNCHANGED <<db_pool, admin, request_sql, fetched>>
    /\ UNCHANGED beyondServer

\* The server after startup, with or without a pool (server.py lines
\* 104-152).  The validator belongs to the backend and plays no part here.
InitServer ==
    /\ normSide = "HEAD"
    /\ kwSide = "HEAD"
    /\ filterSide = "HEAD"
    /\ raw_sql = ""
    /\ business_id = "t1"
    /\ pc = "done"
    /\ sql = ""
    /\ sql_upper = ""
    /\ outcome = Rejected
    /\ log = << >>
    /\ history = << >>
    /\ sessions = [s \in SessionIds |-> NoSession]
    /\ wire = {}
    /\ executed = {}
    /\ imported = << >>
    /\ translation_service = TRUE
    /\ ChatStart
    /\ db_pool \in BOOLEAN
    /\ ServerStart

NextServer ==
    \/ \E a \in Admins : AdminConnects(a)
    \/ \E a \in Admins : AdminLeaves(a)
    \/ \E a \in Admins : AdminHandlerEnds(a)
    \/ \E text \in ServerStatements : Query(text)
    \/ FetchFails
    \/ FetchReturns
    \/ BroadcastNext

SpecServer == InitServer /\ [][NextServer]_vars

(***************************************************************************)
(* What the claims speak of.                                               *)
(***************************************************************************)

\* The call has returned a secured statement.
SecuredNow == pc = "done" /\ outcome.kind = "secured"

\* The raw statement as the checks saw it.
NormalizedRaw == Normalize(normSide, raw_sql)

\* business_id = '<escaped id>', the predicate tying business_id to id.
TenantPredicate(id) == "business_id = '" \o EscapeId(id) \o "'"

\* The positions at which p occurs in s.
Occurrences(s, p) == {i \in 1..Len(s) : MatchAt(s, i, p)}

\* The position of the quote closing the SQL string literal whose text
\* starts at position i of s (a doubled quote inside it is an escaped
\* quote); Len(s) + 1 when the literal is not closed.
LiteralEnd(s, i) ==
    LET RunStart(k) ==
            LET prev == {j \in i..(k - 1) : Ch(s, j) # "'"}
            IN  IF prev = {} THEN i
                ELSE 1 + (CHOOSE j \in prev : \A l \in prev : l <= j)
        ends == {k \in i..Len(s) :
                    /\ Ch(s, k) = "'"
                    /\ (k = Len(s) \/ Ch(s, k + 1) # "'")
                    /\ (k - RunStart(k) + 1) % 2 = 1}
    IN  IF ends = {} THEN Len(s) + 1 ELSE FirstOf(ends)

\* The string literals a statement compares business_id with: the texts
\* between the quotes of every  business_id = '...'  in s.
BusinessIdLiterals(s) ==
    LET su == Upper(s)
        LitStart(i) ==
            LET a == RunEnd(s, i + Len("business_id"), SpaceChars)
                b == RunEnd(s, a + 1, SpaceChars)
            IN  IF a <= Len(s) /\ Ch(s, a) = "=" /\ b <= Len(s) /\ Ch(s, b) = "'"
                THEN b + 1 ELSE 0
    IN  {SubSeq(s, LitStart(i), LiteralEnd(s, LitStart(i)) - 1) :
            i \in {k \in Occurrences(su, "BUSINESS_ID") : LitStart(k) # 0}}

\* C1: tenant binding.  Every secured statement returned for tenant id t
\* holds the predicate tying business_id to t, and compares business_id with
\* no literal other than t's, also when the raw statement already names
\* another tenant's id.
C1_TenantBinding ==
    SecuredNow =>
        /\ Contains(outcome.sql, TenantPredicate(business_id))
        /\ BusinessIdLiterals(outcome.sql) \subseteq {EscapeId(business_id)}

\* The number of parentheses open at position i of s.
Depth(s, i) ==
    Cardinality({k \in 1..(i - 1) : Ch(s, k) = "("})
    - Cardinality({k \in 1..(i - 1) : Ch(s, k) = ")"})

\* The condition of the first WHERE of s: the text after the keyword, up to
\* the first clause keyword that follows at the same depth, or to the end.
WhereCondition(s) ==
    LET w  == WordSearch(s, "WHERE")
        su == Upper(s)
        t  == RStripSemi(s)
        stops == {i \in (w + 5)..Len(t) :
                     /\ Depth(s, i) = Depth(s, w)
                     /\ \E n \in 1..Len(ClauseKeywords) :
                            WordMatchAt(su, i, ClauseKeywords[n])}
    IN  IF w = 0 THEN ""
        ELSE SubSeq(t, w + 5, (IF stops = {} THEN Len(t) + 1 ELSE FirstOf(stops)) - 1)

\* The operands of the ORs of condition c that stand outside parentheses:
\* SQL reads  a AND b OR c  as  (a AND b) OR c.
Disjuncts(c) ==
    LET cu  == Upper(c)
        ors == {i \in 1..Len(c) : MatchAt(cu, i, " OR ") /\ Depth(c, i) = 0}
        starts == {1} \cup {i + 4 : i \in ors}
        EndOf(a) == FirstOf({i \in ors \cup {Len(c) + 1} : i >= a}) - 1
    IN  {SubSeq(c, a, EndOf(a)) : a \in starts}

\* Operand d demands the tenant predicate: it holds it outside parentheses,
\* as an operand of its ANDs.
Guarded(d, id) ==
    \E i \in Occurrences(d, TenantPredicate(id)) : Depth(d, i) = 0

\* A row of another tenant that satisfies every other comparison of the
\* statement satisfies its WHERE condition.
ForeignRowSelected(s, id) ==
    \E d \in Disjuncts(WhereCondition(s)) : ~Guarded(d, id)

\* The WHERE condition of s starts with the tenant predicate, under a
\* qualifier or bare, followed by AND.
PredicateLeadsWhere(s, id) ==
    LET c == LStripSet(WhereCondition(s), SpaceChars)
        q == Find(c, TenantPredicate(id))
    IN  /\ q # 0
        /\ \A k \in 1..(q - 1) : Ch(c, k) \in WordChars \cup {"."}
        /\ MatchAt(c, q + Len(TenantPredicate(id)), " AND ")

\* C2: when the raw statement has a WHERE clause, the tenant predicate is
\* put right after the WHERE keyword and ANDed with the whole earlier
\* condition: no OR of that condition lets through a row that fails the
\* tenant predicate.
C2_AndWithWholePredicate ==
    (SecuredNow /\ WordSearch(NormalizedRaw, "WHERE") # 0) =>
        /\ PredicateLeadsWhere(outcome.sql, business_id)
        /\ ~ForeignRowSelected(outcome.sql, business_id)

\* The names that follow any FROM or JOIN keyword of s, in lower case.
ReferencedTables(s) ==
    LET su == Upper(s)
        NameAfter(i, kw) ==
            LET a == RunEnd(su, i + Len(kw), SpaceChars)
            IN  SubSeq(su, a, RunEnd(su, a, WordChars) - 1)
        Named(kw) == {i \in 1..Len(su) :
                         /\ WordMatchAt(su, i, kw)
                         /\ RunEnd(su, i + Len(kw), SpaceChars) > i + Len(kw)
                         /\ NameAfter(i, kw) # ""}
    IN  {Lower(NameAfter(i, "FROM")) : i \in Named("FROM")}
        \cup {Lower(NameAfter(i, "JOIN")) : i \in Named("JOIN")}

\* C3: allowlist.  Every table named after any FROM or JOIN of a secured
\* statement, a subquery's included, is on the allowlist.
C3_AllowlistEveryTable ==
    SecuredNow => ReferencedTables(outcome.sql) \subseteq ALLOWED_TABLES

\* The call has passed the classifier (lines 38-64): its text is about to
\* be injected into, verified, limited, checked against the allowlist, or
\* has been returned.
Classified == pc \in {"inject", "verify", "limit", "allowlist"} \/ SecuredNow

\* The text the call holds, or has returned.
CurrentText == IF pc = "done" THEN outcome.sql ELSE sql

BeginsWithSelect(s) == StartsWith(Upper(s), "SELECT")

\* s holds no semicolon but, at most, its last character.
SemicolonOnlyLast(s) == \A i \in 1..Len(s) : Ch(s, i) = ";" => i = Len(s)

\* s with every string literal holding the tenant id emptied.
WithoutTenantLiteral(s, id) == Replace(s, "'" \o EscapeId(id) \o "'", "''")

\* C4 as stated: a classified or secured text begins with SELECT and holds
\* no semicolon anywhere but as its last character, before and after the
\* injection and the limit.
C4_NoSemicolonAnywhere ==
    Classified =>
        /\ BeginsWithSelect(CurrentText)
        /\ SemicolonOnlyLast(CurrentText)

\* C4, amended: a classified or secured text begins with SELECT and holds
\* no semicolon but as its last character, outside the string literal that
\* holds the tenant id.
C4_NoSemicolonOutsideTenantLiteral ==
    Classified =>
        /\ BeginsWithSelect(CurrentText)
        /\ SemicolonOnlyLast(WithoutTenantLiteral(CurrentText, business_id))

\* A secured statement that ends with the raw statement's semicolon and
\* holds a tenant id with a semicolon in it.
C4_Witness ==
    /\ SecuredNow
    /\ Contains(business_id, ";")
    /\ Contains(outcome.sql, TenantPredicate(business_id))
    /\ Ch(outcome.sql, Len(outcome.sql)) = ";"

\* The number a run of decimal digits writes.
RECURSIVE StrToNat(_)
StrToNat(d) ==
    IF d = "" THEN 0
    ELSE 10 * StrToNat(SubSeq(d, 1, Len(d) - 1))
         + ((CHOOSE k \in 1..10 : Ch(Digits, k) = Ch(d, Len(d))) - 1)

\* The row counts of the LIMIT clauses of s: the numbers after a LIMIT
\* keyword.
LimitValues(s) ==
    LET su == Upper(s)
        NumStart(i) == RunEnd(s, i + 5, SpaceChars)
        NumEnd(i) == RunEnd(s, NumStart(i), DigitSet)
    IN  {StrToNat(SubSeq(s, NumStart(i), NumEnd(i) - 1)) :
            i \in {k \in 1..Len(s) :
                     /\ WordMatchAt(su, k, "LIMIT")
                     /\ NumStart(k) > k + 5
                     /\ NumEnd(k) > NumStart(k)}}

\* C5: every secured statement has a LIMIT clause, appended or its own,
\* and its value is at most the configured maximum.
C5_LimitWithinMaximum ==
    SecuredNow =>
        /\ LimitValues(outcome.sql) # {}
        /\ \A v \in LimitValues(outcome.sql) : v <= DefaultLimit

\* C6: a tenant id with a single quote is accepted.  Once the injection has
\* put the predicate with the doubled quote into a statement over allowed
\* tables, the call returns that statement: the verification does not
\* reject it.
C6_QuotedTenantAccepted ==
    (/\ pc = "done"
     /\ Contains(business_id, "'")
     /\ outcome.kind # "raised"
     /\ Contains(sql, TenantPredicate(business_id))
     /\ ValidateAllowedTables(sql, ALLOWED_TABLES)) =>
        /\ outcome.kind = "secured"
        /\ EscapeId(business_id) \in BusinessIdLiterals(outcome.sql)

\* How often the predicate of tenant id occurs in s.
PredicateCount(s, id) == Cardinality(Occurrences(s, TenantPredicate(id)))

\* How many LIMIT keywords s holds.
LimitCount(s) ==
    Cardinality({i \in 1..Len(s) : WordMatchAt(Upper(s), i, "LIMIT")})

\* C7: idempotence.  When a secured statement is submitted again with the
\* same tenant id, it is accepted, the tenant predicate occurs once after
\* the first call and once after the second, and no LIMIT is added.
C7_Idempotent ==
    \A i \in 1..(Len(history) - 1) :
        (/\ history[i].outcome.kind = "secured"
         /\ history[i + 1].raw_sql = history[i].outcome.sql) =>
            /\ history[i + 1].outcome.kind = "secured"
            /\ PredicateCount(history[i].outcome.sql, business_id) = 1
            /\ PredicateCount(history[i + 1].outcome.sql, business_id) = 1
            /\ LimitCount(history[i + 1].outcome.sql)
                   = LimitCount(history[i].outcome.sql)

\* The words that open a clause and so are no alias (spec 4.3).
ReservedClauseWords ==
    {"WHERE", "GROUP", "ORDER", "LIMIT", "HAVING", "OFFSET", "JOIN"}

\* The alias written after the table of the first FROM of s, "" when none.
WrittenAlias(s) ==
    LET m == FromSearch(s)
        a == IF m.ok /\ m.g2s # 0 THEN SubSeq(s, m.g2s, m.g2e - 1) ELSE ""
    IN  IF Upper(a) \in ReservedClauseWords THEN "" ELSE a

\* The raw statement does not mention business_id: the predicate of a
\* secured statement is the injected one.
NothingToKeep == ~Contains(Upper(NormalizedRaw), "BUSINESS_ID")

\* C8: alias correctness.  When the first FROM names a table with an alias,
\* the injected predicate is qualified by that alias, and by nothing else.
C8_AliasQualifies ==
    (SecuredNow /\ NothingToKeep /\ WrittenAlias(NormalizedRaw) # "") =>
        LET a == WrittenAlias(NormalizedRaw) \o "."
            at == Occurrences(outcome.sql, TenantPredicate(business_id))
        IN  /\ at # {}
            /\ \A i \in at :
                   /\ MatchAt(outcome.sql, i - Len(a), a)
                   /\ ~IsWordAt(outcome.sql, i - Len(a) - 1)

\* The least position at which a clause keyword occurs in s, 0 when none.
EarliestClause(s) ==
    FirstOf({WordSearch(s, ClauseKeywords[n]) : n \in 1..Len(ClauseKeywords)} \ {0})

\* C9: clause locator.  When the raw statement has no WHERE, the new WHERE
\* stands right before the clause keyword of least offset, at the end of
\* the statement when there is none, and after none of the clauses.
C9_WhereBeforeEarliestClause ==
    (SecuredNow /\ NothingToKeep /\ WordSearch(NormalizedRaw, "WHERE") = 0) =>
        LET w == WordSearch(outcome.sql, "WHERE")
            e == EarliestClause(NormalizedRaw)
        IN  /\ w # 0
            /\ Strip(Before(outcome.sql, w))
                   = IF e # 0 THEN Strip(Before(NormalizedRaw, e))
                     ELSE RStripSemi(NormalizedRaw)
            /\ \A n \in 1..Len(ClauseKeywords) :
                   LET k == WordSearch(outcome.sql, ClauseKeywords[n])
                   IN  k = 0 \/ w < k

\* C10: the engine is total and deterministic.  Every call ends in a secured
\* statement or a rejection, never in an exception, and calls with equal
\* arguments end alike.
C10_TotalAndDeterministic ==
    /\ pc = "done" => outcome.kind \in {"secured", "rejected"}
    /\ \A i, j \in 1..Len(history) :
           (/\ history[i].raw_sql = history[j].raw_sql
            /\ history[i].business_id = history[j].business_id) =>
               history[i].outcome = history[j].outcome

\* The call as one function of its arguments, on the resolution in force.
EvaluateHere(raw, id) == Evaluate(normSide, kwSide, filterSide, raw, id)

\* The call has returned None.
RejectedNow == pc = "done" /\ outcome.kind = "rejected"

\* The check that ended the call.
RejectedAt == EvaluateHere(raw_sql, business_id).at

\* The spec's name for a rejection by each check (spec 7); no check of the
\* code rejects for an unparseable statement.
ReasonOf(at) ==
    CASE at = "check_select"     -> "NotSelect"
      [] at = "check_keywords"   -> "ForbiddenKeyword"
      [] at = "check_statements" -> "MultipleStatements"
      [] at = "verify"           -> "InjectionVerificationFailed"
      [] at = "allowlist"        -> "UnauthorizedTable"
      [] OTHER                   -> "None"

\* The rejected statements the spec names.
RejectionExamples ==
    {"UPDATE products SET price = 0",
     "SELECT 1; DROP TABLE products",
     "SELECT * FROM secrets"}

\* C11: rejections are typed.  What a rejected call returns lets the caller
\* tell its reason from the reason of any other rejection: two calls
\* rejected for different reasons return different values.  An UPDATE is
\* rejected as NotSelect, 'SELECT 1; DROP TABLE products' as
\* MultipleStatements or ForbiddenKeyword, 'SELECT * FROM secrets' as
\* UnauthorizedTable.
C11_RejectionsTyped ==
    RejectedNow =>
        /\ raw_sql = "UPDATE products SET price = 0"
               => ReasonOf(RejectedAt) = "NotSelect"
        /\ raw_sql = "SELECT 1; DROP TABLE products"
               => ReasonOf(RejectedAt) \in {"MultipleStatements", "ForbiddenKeyword"}
        /\ raw_sql = "SELECT * FROM secrets"
               => ReasonOf(RejectedAt) = "UnauthorizedTable"
        /\ \A ex \in RejectionExamples :
               LET e == EvaluateHere(ex, business_id)
               IN  (e.outcome.kind = "rejected"
                    /\ ReasonOf(e.at) # ReasonOf(RejectedAt))
                       => e.outcome # outcome

\* 'FROM <identifier>' occurs in s.
HasFromClause(s) == FromSearch(s).ok

\* C12: a statement with no FROM clause is always rejected.  No secured
\* statement is returned for a raw statement in which no
\* 'FROM <identifier>' occurs, such as 'SELECT 1'.
C12_NoFromRejected ==
    (pc = "done" /\ ~HasFromClause(NormalizedRaw)) => outcome.kind = "rejected"

\* The statements of a call in the order of the code: the three tests of
\* the classifier, the injection and its verification, the limit (lines
\* 74-76), then the allowlist (line 276).
CodeOrder ==
    <<"normalize", "check_select", "check_keywords", "check_statements",
      "inject", "verify", "limit", "allowlist", "done">>

\* The order of spec 5: the allowlist before the limit.
SpecOrder ==
    <<"normalize", "check_select", "check_keywords", "check_statements",
      "inject", "verify", "allowlist", "limit", "done">>

\* A step keeps to order: a running call moves to the next stage (after the
\* last one it returns the text it holds), or ends rejected or raised with
\* its text untouched; a finished call is followed only by a new call.
Follows(order) ==
    LET i == CHOOSE k \in 1..Len(order) : order[k] = pc
    IN  \/ /\ pc = "done"
           /\ pc' = order[1]
        \/ /\ pc # "done"
           /\ pc' = order[i + 1]
           /\ outcome' = IF pc' = "done" THEN Secured(sql') ELSE Pending
        \/ /\ pc # "done"
           /\ pc' = "done"
           /\ outcome'.kind \in {"rejected", "raised"}
           /\ sql' = sql

EndsWith(s, suffix) ==
    /\ Len(s) >= Len(suffix)
    /\ SubSeq(s, Len(s) - Len(suffix) + 1, Len(s)) = suffix

\* C14: limit enforcement.  A secured statement whose raw statement has no
\* LIMIT clause ends in the default cap ' LIMIT 1000', its only LIMIT, after
\* the tenant predicate; one whose raw statement has a LIMIT n keeps that
\* LIMIT n and gets no second LIMIT.
C14_LimitEnforced ==
    SecuredNow =>
        IF LimitCount(NormalizedRaw) = 0
        THEN /\ EndsWith(outcome.sql, " LIMIT " \o NatToStr(DefaultLimit))
             /\ LimitCount(outcome.sql) = 1
             /\ Find(outcome.sql, TenantPredicate(business_id))
                    < Len(outcome.sql) - Len(" LIMIT " \o NatToStr(DefaultLimit)) + 1
        ELSE /\ LimitCount(outcome.sql) = LimitCount(NormalizedRaw)
             /\ LimitValues(outcome.sql) = LimitValues(NormalizedRaw)

\* s holds the predicate on the column business_id for tenant id, with the
\* quotes of id doubled: bare or under a qualifier, and not as the tail of
\* a longer column name.
HoldsExpectedPredicate(s, id) ==
    \E i \in Occurrences(s, TenantPredicate(id)) : ~IsWordAt(s, i - 1)

\* C15: post-condition check.  A text that has passed the verification of
\* lines 69-72, and every secured statement, holds the expected predicate
\* on business_id for the caller's tenant id; a text without it is rejected,
\* also when the injection was skipped.
C15_PostConditionChecked ==
    /\ pc \in {"limit", "allowlist"} => HoldsExpectedPredicate(sql, business_id)
    /\ SecuredNow => HoldsExpectedPredicate(outcome.sql, business_id)

\* The blocklist of spec 4.1.
SpecBlocklist ==
    {"DROP", "DELETE", "UPDATE", "INSERT", "ALTER", "CREATE", "TRUNCATE",
     "EXEC", "EXECUTE", "GRANT", "REVOKE", "PRAGMA", "COPY", "VACUUM", "INTO",
     "INFORMATION_SCHEMA", "PG_", "--", ";--"}

\* Some word of the blocklist occurs in the uppercased text of s.
HoldsBlocklisted(s) == \E w \in SpecBlocklist : Contains(Upper(s), w)

\* C16: a raw statement whose uppercased text holds a blocklisted word
\* anywhere never reaches the injection and is never returned secured.
C16_BlocklistRejects ==
    HoldsBlocklisted(raw_sql) => ~Classified

\* Every occurrence of a blocklisted word in s is a part of a longer
\* identifier: the word is made of letters and a letter, digit or
\* underscore stands right before or right after it.
OnlyInsideIdentifiers(s) ==
    \A w \in SpecBlocklist :
        \A i \in Occurrences(Upper(s), w) :
            /\ CharsOf(w) \subseteq UpperSet
            /\ IsWordAt(s, i - 1) \/ IsWordAt(s, i + Len(w))

\* C17: no false positive on identifiers.  A SELECT whose blocklisted words
\* all are parts of column or table names, such as created_at, is not
\* rejected by the keyword test.
C17_NoFalsePositive ==
    (RejectedNow /\ RejectedAt = "check_keywords")
        => ~OnlyInsideIdentifiers(NormalizedRaw)

\* The last message the call logged, "" when none.
LastLogged == IF log = << >> THEN "" ELSE log[Len(log)]

\* The call was rejected by the test of line 62.
RejectedForStatements ==
    RejectedNow /\ LastLogged = "Rejected query with multiple statements"

\* C18: a statement whose normalised text holds a semicolon anywhere but as
\* its last character never passes the classifier and ends rejected; a
\* statement with one closing semicolon, or none, is not rejected by the
\* test of line 62.
C18_SemicolonRejected ==
    /\ Classified => SemicolonOnlyLast(NormalizedRaw)
    /\ (pc = "done" /\ ~SemicolonOnlyLast(NormalizedRaw))
           => outcome.kind = "rejected"
    /\ RejectedForStatements => ~SemicolonOnlyLast(NormalizedRaw)

\* A call rejected by line 62 for a single semicolon that is not the last
\* character of its statement.
C18_Witness ==
    /\ RejectedForStatements
    /\ Count(NormalizedRaw, ";") = 1
    /\ ~SemicolonOnlyLast(NormalizedRaw)

\* The call for a statement whose text t does not begin with SELECT runs
\* no other check and ends rejected by the SELECT test, its text as the
\* normalisation left it.
RejectedFirst(t) ==
    ~BeginsWithSelect(t) =>
        /\ pc \in {"normalize", "check_select", "done"}
        /\ pc = "done" =>
               /\ outcome = Rejected
               /\ log = <<"Rejected non-SELECT query">>
               /\ sql = NormalizedRaw

\* C19 as stated: a statement whose trimmed, uppercased text does not
\* start with SELECT is rejected before any other check, and nothing is
\* injected into it.
C19_TrimmedNotSelectRejected == RejectedFirst(Strip(raw_sql))

\* C19, amended: a statement whose normalised, uppercased text (trimmed,
\* and with the code fences taken out where the normalisation does so) does
\* not start with SELECT is rejected before any other check, and nothing is
\* injected into it.
C19_NormalizedNotSelectRejected == RejectedFirst(NormalizedRaw)

\* A call rejected by the SELECT test.
C19_Witness ==
    /\ RejectedNow
    /\ ~BeginsWithSelect(NormalizedRaw)
    /\ LastLogged = "Rejected non-SELECT query"

\* The statements validate_query_complete returns for tenant id.
SecuredFor(id) ==
    {imported[q, id].sql : q \in {x \in SessionQueries :
                                     imported[x, id].kind = "secured"}}

FirstTable(s) ==
    LET m == FromSearch(s)
    IN  IF m.ok THEN SubSeq(s, m.g1s, m.g1e - 1) ELSE ""

\* The word right after the table of the first FROM of s, "" when none.
WordAfterTable(s) ==
    LET m == FromSearch(s)
    IN  IF m.ok /\ m.g2s # 0 THEN SubSeq(s, m.g2s, m.g2e - 1) ELSE ""

\* C21: the alias is never a reserved clause keyword.  When the table of
\* the first FROM is directly followed by WHERE, GROUP, ORDER, LIMIT,
\* HAVING, OFFSET or JOIN, the injected predicate is qualified by the table
\* name itself.
C21_KeywordIsNoAlias ==
    (SecuredNow /\ NothingToKeep
        /\ Upper(WordAfterTable(NormalizedRaw)) \in ReservedClauseWords) =>
        LET q == FirstTable(NormalizedRaw) \o "."
            at == Occurrences(outcome.sql, TenantPredicate(business_id))
        IN  /\ at # {}
            /\ \A i \in at :
                   /\ MatchAt(outcome.sql, i - Len(q), q)
                   /\ ~IsWordAt(outcome.sql, i - Len(q) - 1)



\* The raw statement holds the token business_id, in any case.
MentionsBusinessId == Contains(Upper(NormalizedRaw), "BUSINESS_ID")

\* C22: idempotence guard.  A statement that holds a business_id token
\* leaves the injection step unchanged; it is secured only if it already
\* holds the exact predicate of the caller's tenant id, and is rejected
\* otherwise.
C22_GuardPassesThrough ==
    MentionsBusinessId =>
        /\ pc = "verify" => sql = NormalizedRaw
        /\ SecuredNow => FilterPresent(NormalizedRaw, business_id)
        /\ (pc = "done" /\ ~FilterPresent(NormalizedRaw, business_id)) =>
               outcome.kind = "rejected"



\* The statement of raw without surrounding code-fence markers and with
\* every run of whitespace written as one space (spec 3.1).
PlainForm(raw) ==
    JoinSplit(Replace(Replace(raw, FenceSql, ""), Fence, ""))

\* C23: input normalisation.  A statement wrapped in code fences or written
\* with newlines between its clauses gets the outcome of the same statement
\* written plainly on one line.
C23_FormattingIrrelevant ==
    pc = "done" =>
        outcome = EvaluateHere(PlainForm(raw_sql), business_id).outcome



\* In this step execute_mcp_tool ends without rows: the statement was not
\* posted, or the call of the server did not succeed.
ToolEndsWithoutRows ==
    \/ ws = "model" /\ generated_sql' # "" /\ posted' = posted
    \/ ws = "mcp" /\ ws' # "mcp" /\ ~tool_result'.success

\* C24: a rejection or an execution failure is scoped to one request.  When
\* a statement is rejected or the call of the server raises, the tool result
\* reports success = false with empty results and the coroutine goes on to
\* the second call of the model; no step of the processing ends the
\* session; and the next message starts from fresh locals.
C24_FailureScoped ==
    [][/\ ToolEndsWithoutRows =>
              /\ ~tool_result'.success
              /\ tool_result'.error # ""
              /\ tool_result'.results = ""
              /\ ~query_success'
              /\ ws' = "final"
       /\ (ws' = "closed" /\ ws # "closed") => ws \in {"init", "loop", "send"}
       /\ (ws = "loop" /\ ws' = "model") =>
              /\ tool_result' = NoToolResult
              /\ ~query_success'
              /\ generated_sql' = ""]_vars

\* A rejected statement for one message, then a second message answered
\* from rows, the session still open.
C24_Witness ==
    /\ ws = "loop"
    /\ Len(logged) = 2
    /\ logged[1].generated_sql = "DROP TABLE sales"
    /\ ~logged[1].query_success
    /\ logged[2].query_success
    /\ logged[2].generated_sql # ""
    /\ Len(sent) = 3
    /\ sent[2].type = "message" /\ sent[3].type = "message"



\* Every statement passed to mcp_client.execute_query is what
\* validate_query_complete returned as secured for the model's statement
\* and the session's business_id.
PostedOnlySecured ==
    \A i \in 1..Len(posted) :
        LET r == imported[posted[i].query, posted[i].business_id]
        IN  /\ posted[i].business_id = ws_business_id
            /\ r.kind = "secured"
            /\ posted[i].sql = r.sql

InitReceived == Len(received) >= 1 /\ received[1].kind = "init"

\* The init frame lacks business_id or user_id.
InitIncomplete ==
    InitReceived /\ (received[1].business_id = "" \/ received[1].user_id = "")

\* C26: chat session protocol.  No message is processed before an init
\* frame with non-empty business_id and user_id; with either missing the
\* server sends one error and ends the session; the business_id used for
\* every later message is the one of the init frame.
C26_InitThenMessages ==
    /\ (Len(received) >= 2 \/ posted # << >> \/ logged # << >>
            \/ ws \notin {"init", "closed"}) =>
           InitReceived /\ ~InitIncomplete
    /\ InitIncomplete =>
           /\ ws = "closed"
           /\ Len(received) = 1
           /\ Len(sent) = 1 /\ sent[1].type = "error"
    /\ InitReceived => ws_business_id = received[1].business_id
    /\ \A i \in 1..Len(posted) : posted[i].business_id = received[1].business_id
    /\ \A i \in 1..Len(logged) : logged[i].business_id = received[1].business_id

\* Two messages of one session have each had a statement passed on.
C26_Witness ==
    /\ Len(posted) = 2
    /\ posted[1].n # posted[2].n
    /\ posted[2].business_id = received[1].business_id



\* The 'message' frames sent so far, in order.
MessageReplies == SelectSeq(sent, LAMBDA f : f.type = "message")

\* The message under way has its reply (1) or its log call (1) still to come.
ReplyDue ==
    IF ws \in {"model", "mcp", "final", "log", "log_error", "send"} THEN 1 ELSE 0

LogDue == IF ws \in {"model", "mcp", "final", "log", "log_error"} THEN 1 ELSE 0

C28_OneQueryPerDataMessage ==
    /\ \A i, j \in 1..Len(posted) : posted[i].n = posted[j].n => i = j
    /\ \A i \in 1..Len(posted) :
           /\ posted[i].n \in Processed
           /\ posted[i].query_type = "data_query"
    /\ ws \in {"final", "log", "log_error", "send"} =>
           Cardinality({i \in 1..Len(posted) : posted[i].n = Current}) <= 1
    /\ query_type = "conversational" =>
           \A i \in 1..Len(posted) : posted[i].n # Current

\* The second response to a data query asked for the tool again: the one
\* statement of the message stays the only one.
C28_Witness ==
    /\ ws = "log"
    /\ response_text = NoTextBlock
    /\ Len(posted) = 1
    /\ posted[1].n = Current



\* A broadcast has ended, by its return or by an exception, and no other
\* has started since.
BroadcastOver == request = "idle" /\ iterator # NoIterator

\* C29: admin broadcast under interleaving.  Whatever admins connect or
\* disconnect while broadcast_to_admins is sending, a request whose rows
\* were fetched is answered 200; and when the broadcast is over, every admin
\* registered at its start and still connected has the message, and no
\* socket whose send failed is registered.
C29_BroadcastHarmless ==
    /\ \A i \in 1..Len(responses) :
           responses[i].rows => responses[i].status = 200
    /\ BroadcastOver =>
           /\ \A a \in iterator.start : admin[a] = "open" => a \in delivered
           /\ disconnected \cap admin_connections = {}

\* C30: the /query endpoint passes a statement to the database only with a
\* pool and only when the trimmed, uppercased statement starts with SELECT;
\* without a pool the answer is 500, to a statement that is no SELECT it is
\* 400, and in both cases nothing is passed to the database.
C30_OnlySelectWithPool ==
    /\ \A i \in 1..Len(fetched) : db_pool /\ IsSelectRequest(fetched[i])
    /\ \A i \in 1..Len(responses) :
           /\ ~db_pool =>
                  /\ responses[i].status = 500
                  /\ responses[i].detail = "Database not initialized"
           /\ (db_pool /\ ~IsSelectRequest(responses[i].sql)) =>
                  /\ responses[i].status = 400
                  /\ responses[i].detail = "Only SELECT queries are allowed"
    /\ Len(fetched) =
           Cardinality({i \in 1..Len(responses) :
                           db_pool /\ IsSelectRequest(responses[i].sql)})
           + (IF request = "idle" THEN 0 ELSE 1)

\* With a pool, a statement that is no SELECT was answered 400 and a SELECT
\* in lower case with leading blanks went to the database.
C30_Witness ==
    /\ db_pool
    /\ Len(responses) = 2
    /\ responses[1].sql = "DROP TABLE sales" /\ responses[1].status = 400
    /\ responses[2].sql = "  select 1" /\ responses[2].status = 200
    /\ fetched = <<"  select 1">>


====
